---- MODULE Spec2Model ----
(***************************************************************************)
(* A state-machine model of CPDF_DIB, the PDF image decoder of            *)
(* core/fpdfapi/page/cpdf_dib.cpp: the load driver (StartLoadDIBBase,     *)
(* ContinueLoadDIBBase), the recursive mask load, and GetScanline.        *)
(*                                                                         *)
(* A CPDF_DIB object is a record whose fields carry the member names of   *)
(* the class.  Smart pointers are "null" or the value they own.  Every    *)
(* method is an operator from the object (and the call's arguments) to    *)
(* the object after the call and the value returned.                      *)
(***************************************************************************)
EXTENDS Integers, Sequences, FiniteSets, TLC

VARIABLES
  call,   \* the arguments StartLoadDIBBase is (to be) called with
  dib,    \* the CPDF_DIB object being loaded
  std,    \* per colour-space object: the "standard conversion" flag
  op,     \* the last load method called on dib
  ret,    \* what that method returned
  scan,   \* what the last GetScanline / GetBuffer call handed out
  hist,   \* history of the calls made so far
  items,  \* the CXFA_ContentLayoutItem objects: each one's m_pPrev, m_pNext
  inserted \* the last InsertAfter call and pItem's neighbours before it

vars == <<call, dib, std, op, ret, scan, hist, items, inserted>>

null == "null"

(***************************************************************************)
(* Bounds of the model.                                                    *)
(***************************************************************************)
\* number of calls one object and its mask make into the JBIG2 codec
MaxContinue == 3
\* highest line index GetScanline is called with
MaxLine == 1

(***************************************************************************)
(* Unsigned 32-bit checked arithmetic (FX_SAFE_UINT32).  The model checker *)
(* works on 32-bit signed integers, so whether a product fits in 32 bits   *)
(* is decided limb by limb and never by computing the product.             *)
(***************************************************************************)
Limb == 65536

\* a * b >= 2^32, for 0 <= a, b < 2^31
MulOverflows32(a, b) ==
  LET a1 == a \div Limb
      a0 == a % Limb
      b1 == b \div Limb
      b0 == b % Limb
      b0h == b0 \div 256
      b0l == b0 % 256
      lowHi == (a0 * b0h + ((a0 * b0l) \div 256)) \div 256
  IN  \/ (a1 > 0 /\ b1 > 0)
      \/ (a1 * b0 + a0 * b1 + lowHi >= Limb)

NoValue == -1

\* fxcodec::CalculatePitch8: bytes of one row of packed samples; NoValue when
\* bpc * components * width + 7 leaves the unsigned 32-bit range.
CalculatePitch8(bpc, components, width) ==
  IF width < 0 \/ MulOverflows32(bpc * components, width) THEN NoValue
  ELSE IF (bpc * components * width + 7) \div Limb >= Limb THEN NoValue
  ELSE (bpc * components * width + 7) \div 8

\* fxcodec::CalculatePitch32: bytes of one 32-bit aligned row
CalculatePitch32(bpp, width) ==
  IF width < 0 \/ MulOverflows32(bpp, width) THEN NoValue
  ELSE IF (bpp * width + 31) \div Limb >= Limb THEN NoValue
  ELSE ((bpp * width + 31) \div 32) * 4

(***************************************************************************)
(* Anonymous-namespace helpers of cpdf_dib.cpp.                            *)
(***************************************************************************)
kMaxImageDimension == 131071

\* IsValidDimension without its upper limit
IsPositiveDimension(value) == value > 0

IsValidDimension(value) == value > 0 /\ value <= kMaxImageDimension

IsMaybeValidBitsPerComponent(bpc) == bpc >= 0 /\ bpc <= 16

IsAllowedBitsPerComponent(bpc) == bpc \in {1, 2, 4, 8, 16}

IsColorIndexOutOfBounds(index, comp_datum) ==
  index < comp_datum.m_ColorKeyMin \/ index > comp_datum.m_ColorKeyMax

\* AreColorIndicesOutOfBounds looking at the first component only
IsFirstColorIndexOutOfBounds(indices, comp_data, count) ==
  IsColorIndexOutOfBounds(indices[1], comp_data[1])

AreColorIndicesOutOfBounds(indices, comp_data, count) ==
  \E i \in 1..count : IsColorIndexOutOfBounds(indices[i], comp_data[i])

CalculateBitsPerPixel(bpc, comps) ==
  IF bpc * comps = 1 THEN 1 ELSE IF bpc * comps <= 8 THEN 8 ELSE 24

\* GetBits8 on a byte sequence (1-based), big-endian within the byte
GetBits8(pData, bitpos, nbits) ==
  LET byte == pData[bitpos \div 8 + 1] IN
  IF nbits = 8 THEN byte
  ELSE IF nbits = 16 THEN byte * 256 + pData[bitpos \div 8 + 2]
  ELSE (byte \div (2 ^ (8 - nbits - (bitpos % 8)))) % (2 ^ nbits)

GetBitValue(pSrc, pos) ==
  (pSrc[pos \div 8 + 1] \div (2 ^ (7 - (pos % 8)))) % 2 = 1

(***************************************************************************)
(* The colour-space collaborator (CPDF_ColorSpace), as far as CPDF_DIB     *)
(* uses it.  A colour-space object is identified by its name; the stock    *)
(* device spaces are single shared objects.                                *)
(***************************************************************************)
\* "ICCBased1", "ICCBased3" and "ICCBased4" are ICCBased spaces of 1, 3 and
\* 4 components, given in the dictionary as arrays (not by a device name)
ColorSpaces ==
  {"DeviceGray", "DeviceRGB", "DeviceCMYK", "Indexed", "Pattern", "CalRGB",
   "ICCBased1", "ICCBased3", "ICCBased4", "Lab"}

CountComponents(cs) ==
  CASE cs = "DeviceGray" -> 1
    [] cs = "DeviceRGB" -> 3
    [] cs = "CalRGB" -> 3
    [] cs = "DeviceCMYK" -> 4
    [] cs = "ICCBased1" -> 1
    [] cs = "ICCBased3" -> 3
    [] cs = "ICCBased4" -> 4
    [] cs = "Lab" -> 3
    [] OTHER -> 1

GetFamily(cs) ==
  IF cs \in {"ICCBased1", "ICCBased3", "ICCBased4"} THEN "ICCBased" ELSE cs

(***************************************************************************)
(* The CPDF_DIB object after construction (the default member             *)
(* initialisers of the class).                                             *)
(***************************************************************************)
NewDIB ==
  [ m_pDict |-> <<>>, m_pStreamAcc |-> null, m_pColorSpace |-> null,
    m_Family |-> "Unknown", m_GroupFamily |-> "Unknown",
    m_MatteColor |-> <<0, 0, 0, 0>>, m_Status |-> "Fail",
    m_bLoadMask |-> FALSE, m_bDefaultDecode |-> TRUE, m_bImageMask |-> FALSE,
    m_bDoBpcCheck |-> TRUE, m_bColorKey |-> FALSE, m_bHasMask |-> FALSE,
    m_bStdCS |-> FALSE,
    m_bpc |-> 0, m_bpc_orig |-> 0, m_nComponents |-> 0,
    m_Width |-> 0, m_Height |-> 0, m_Pitch |-> 0, m_Format |-> "Invalid",
    m_CompData |-> <<>>, m_pLineBuf |-> <<>>, m_pMaskedLine |-> <<>>,
    m_pCachedBitmap |-> <<>>, m_pMask |-> <<>>, m_pDecoder |-> <<>>,
    m_pJbig2Context |-> null, m_pGlobalAcc |-> null,
    m_JpxInlineData |-> <<>>, m_palette |-> <<>>,
    \* history, not members: a codec was created or called for this object;
    \* the calls made to Jbig2Decoder::StartDecode and ::ContinueDecode
    codecTouched |-> FALSE, nStartDecode |-> 0, nContinueDecode |-> 0,
    \* history, not a member: the flag of m_pColorSpace when LoadPalette ran
    stdAtPalette |-> null ]

ZeroCompData ==
  [ m_DecodeMin |-> 0, m_DecodeStep |-> <<0, 1>>,
    m_ColorKeyMin |-> 0, m_ColorKeyMax |-> 0 ]

\* CPDF_Array::GetIntegerAt / GetNumberAt: 0 past the end (index from 0)
GetNumberAt(arr, i) == IF i + 1 <= Len(arr) THEN arr[i + 1] ELSE 0

Max(a, b) == IF a >= b THEN a ELSE b

Min(a, b) == IF a <= b THEN a ELSE b

RECURSIVE GCD(_, _)

GCD(a, b) == IF b = 0 THEN a ELSE GCD(b, a % b)

\* the float n / d, as a fraction in lowest terms (d = 0: kept as written)
Ratio(n, d) ==
  LET g == GCD(IF n < 0 THEN -n ELSE n, d) IN
  IF d = 0 \/ g = 0 THEN <<n, d>> ELSE <<n \div g, d \div g>>

\* CPDF_ColorSpace::GetDefaultValue: <<min, max>> of component i; the device
\* spaces range over [0, 1], an Indexed space over its indices
GetDefaultValue(cs, max_data) ==
  IF cs = "Indexed" THEN <<0, max_data>> ELSE <<0, 1>>

\* ValidateDictParam without the check of the resulting m_bpc
ValidateDictParamUnchecked(self, filter) ==
  LET s0 == [self EXCEPT !.m_bpc = self.m_bpc_orig] IN
  IF filter = "JPXDecode" THEN [s0 EXCEPT !.m_bDoBpcCheck = FALSE]
  ELSE IF filter \in {"CCITTFaxDecode", "JBIG2Decode"}
  THEN [s0 EXCEPT !.m_bpc = 1, !.m_nComponents = 1]
  ELSE IF filter = "DCTDecode" THEN [s0 EXCEPT !.m_bpc = 8]
  ELSE s0

\* ValidateDictParam keeping the declared bits per component of a DCT image
ValidateDictParamDctDeclared(self, filter) ==
  LET s0 == [self EXCEPT !.m_bpc = self.m_bpc_orig] IN
  IF filter = "JPXDecode" THEN [s0 EXCEPT !.m_bDoBpcCheck = FALSE]
  ELSE
    LET s1 == IF filter \in {"CCITTFaxDecode", "JBIG2Decode"}
              THEN [s0 EXCEPT !.m_bpc = 1, !.m_nComponents = 1]
              ELSE s0
    IN  IF ~IsAllowedBitsPerComponent(s1.m_bpc) THEN [s1 EXCEPT !.m_bpc = 0]
        ELSE s1

ValidateDictParam(self, filter) ==
  LET s0 == [self EXCEPT !.m_bpc = self.m_bpc_orig] IN
  IF filter = "JPXDecode" THEN [s0 EXCEPT !.m_bDoBpcCheck = FALSE]
  ELSE
    LET s1 == IF filter \in {"CCITTFaxDecode", "JBIG2Decode"}
              THEN [s0 EXCEPT !.m_bpc = 1, !.m_nComponents = 1]
              ELSE IF filter = "DCTDecode" THEN [s0 EXCEPT !.m_bpc = 8]
              ELSE s0
    IN  IF ~IsAllowedBitsPerComponent(s1.m_bpc) THEN [s1 EXCEPT !.m_bpc = 0]
        ELSE s1

\* GetDecodeAndMaskArray reading the Mask array beside an SMask as well
GetDecodeAndMaskArrayBesideSMask(self) ==
  IF self.m_pColorSpace = null THEN [ok |-> FALSE, self |-> self]
  ELSE
    LET n == self.m_nComponents
        pDict == self.m_pDict[1]
        max_data == 2 ^ self.m_bpc - 1
        def == GetDefaultValue(self.m_pColorSpace, max_data)
        resized == [i \in 1..n |->
                     IF i <= Len(self.m_CompData) THEN self.m_CompData[i]
                     ELSE ZeroCompData]
        hasDecode == pDict.Decode # <<>>
        pDecode == IF hasDecode THEN pDict.Decode[1] ELSE <<>>
        decoded == [i \in 1..n |->
                     IF hasDecode
                     THEN [resized[i] EXCEPT
                            !.m_DecodeMin = GetNumberAt(pDecode, (i - 1) * 2),
                            !.m_DecodeStep =
                               Ratio(GetNumberAt(pDecode, (i - 1) * 2 + 1)
                                       - GetNumberAt(pDecode, (i - 1) * 2),
                                     max_data)]
                     ELSE [resized[i] EXCEPT
                            !.m_DecodeMin = def[1],
                            !.m_DecodeStep =
                               Ratio(def[2] - def[1], max_data)]]
        isDefault == \A i \in 1..n :
                        /\ def[1] = GetNumberAt(pDecode, (i - 1) * 2)
                        /\ def[2] = GetNumberAt(pDecode, (i - 1) * 2 + 1)
        s1 == [self EXCEPT
                 !.m_CompData = decoded,
                 !.m_bDefaultDecode =
                    IF hasDecode /\ ~isDefault THEN FALSE ELSE @]
        pMask == pDict.MaskArray
        keyed == [i \in 1..n |->
                   [decoded[i] EXCEPT
                      !.m_ColorKeyMin = Max(GetNumberAt(pMask, (i - 1) * 2), 0),
                      !.m_ColorKeyMax =
                         Min(GetNumberAt(pMask, (i - 1) * 2 + 1), max_data)]]
    IN  IF pDict.Mask = "none" THEN [ok |-> TRUE, self |-> s1]
        ELSE IF pDict.Mask = "array"
        THEN [ok |-> TRUE,
              self |-> [s1 EXCEPT
                          !.m_CompData =
                             IF Len(pMask) >= n * 2 THEN keyed ELSE decoded,
                          !.m_bColorKey = TRUE]]
        ELSE [ok |-> TRUE, self |-> s1]

\* returns the object and the bool result
GetDecodeAndMaskArray(self) ==
  IF self.m_pColorSpace = null THEN [ok |-> FALSE, self |-> self]
  ELSE
    LET n == self.m_nComponents
        pDict == self.m_pDict[1]
        max_data == 2 ^ self.m_bpc - 1
        def == GetDefaultValue(self.m_pColorSpace, max_data)
        resized == [i \in 1..n |->
                     IF i <= Len(self.m_CompData) THEN self.m_CompData[i]
                     ELSE ZeroCompData]
        hasDecode == pDict.Decode # <<>>
        pDecode == IF hasDecode THEN pDict.Decode[1] ELSE <<>>
        decoded == [i \in 1..n |->
                     IF hasDecode
                     THEN [resized[i] EXCEPT
                            !.m_DecodeMin = GetNumberAt(pDecode, (i - 1) * 2),
                            !.m_DecodeStep =
                               Ratio(GetNumberAt(pDecode, (i - 1) * 2 + 1)
                                       - GetNumberAt(pDecode, (i - 1) * 2),
                                     max_data)]
                     ELSE [resized[i] EXCEPT
                            !.m_DecodeMin = def[1],
                            !.m_DecodeStep =
                               Ratio(def[2] - def[1], max_data)]]
        isDefault == \A i \in 1..n :
                        /\ def[1] = GetNumberAt(pDecode, (i - 1) * 2)
                        /\ def[2] = GetNumberAt(pDecode, (i - 1) * 2 + 1)
        s1 == [self EXCEPT
                 !.m_CompData = decoded,
                 !.m_bDefaultDecode =
                    IF hasDecode /\ ~isDefault THEN FALSE ELSE @]
        pMask == pDict.MaskArray
        keyed == [i \in 1..n |->
                   [decoded[i] EXCEPT
                      !.m_ColorKeyMin = Max(GetNumberAt(pMask, (i - 1) * 2), 0),
                      !.m_ColorKeyMax =
                         Min(GetNumberAt(pMask, (i - 1) * 2 + 1), max_data)]]
    IN  IF pDict.SMask THEN [ok |-> TRUE, self |-> s1]
        ELSE IF pDict.Mask = "none" THEN [ok |-> TRUE, self |-> s1]
        ELSE IF pDict.Mask = "array"
        THEN [ok |-> TRUE,
              self |-> [s1 EXCEPT
                          !.m_CompData =
                             IF Len(pMask) >= n * 2 THEN keyed ELSE decoded,
                          !.m_bColorKey = TRUE]]
        ELSE [ok |-> TRUE, self |-> s1]

LoadColorInfo(self) ==
  LET pDict == self.m_pDict[1]
      failed == [ok |-> FALSE, self |-> self]
  IN
  IF pDict.Filter = "Invalid" THEN failed
  ELSE
    LET s1 == [self EXCEPT !.m_bpc_orig = pDict.BitsPerComponent] IN
    IF ~IsMaybeValidBitsPerComponent(s1.m_bpc_orig)
    THEN [ok |-> FALSE, self |-> s1]
    ELSE
      LET s2 == IF pDict.ImageMask THEN [s1 EXCEPT !.m_bImageMask = TRUE]
                ELSE s1
      IN
      IF s2.m_bImageMask \/ pDict.ColorSpace = null
      THEN
        IF ~s2.m_bImageMask /\ pDict.Filter = "JPXDecode"
        THEN [ok |-> TRUE, self |-> [s2 EXCEPT !.m_bDoBpcCheck = FALSE]]
        ELSE [ok |-> TRUE,
              self |-> [s2 EXCEPT
                          !.m_bImageMask = TRUE,
                          !.m_bpc = 1, !.m_nComponents = 1,
                          !.m_bDefaultDecode =
                             (pDict.Decode = <<>>
                                \/ GetNumberAt(pDict.Decode[1], 0) = 0)]]
      ELSE IF pDict.ColorSpace \notin ColorSpaces
      THEN [ok |-> FALSE, self |-> s2]
      ELSE
        LET s3 == [s2 EXCEPT
                     !.m_pColorSpace = pDict.ColorSpace,
                     !.m_nComponents = CountComponents(pDict.ColorSpace),
                     !.m_Family = GetFamily(pDict.ColorSpace)]
        IN  GetDecodeAndMaskArray(ValidateDictParam(s3, pDict.Filter))

(***************************************************************************)
(* Decoder creation.  The codec libraries are collaborators: what a codec  *)
(* answers for a stream is a property of the stream, held in its `codec`   *)
(* record (ok: the decoder object is created / the bitstream opens; ok2:   *)
(* the second step, the JPEG re-creation or the JPX Decode, succeeds;      *)
(* hasInfo, width, height, components, bits, srgb: the header the codec    *)
(* reads from the bitstream).                                              *)
(***************************************************************************)
IsValidJpegComponent(comps) == comps \in {1, 3, 4}

IsValidJpegBitsPerComponent(bpc) == bpc = 8

ComponentsForFamily(family) ==
  CASE family = "DeviceGray" -> 1
    [] family = "DeviceRGB" -> 3
    [] family = "DeviceCMYK" -> 4
    [] OTHER -> 0

IsValidIccComponents(comps) == comps \in {1, 3, 4}

\* the scanline decoder object JpegModule::CreateDecoder hands back
JpegDecoder(codec) ==
  <<[bpc |-> codec.bits, comps |-> codec.components, width |-> codec.width]>>

\* the end of CreateDCTDecoder: the decoder re-created with the header's
\* geometry; g is what preceded it (the object, and whether it succeeded)
RecreateDecoder(g, codec) ==
  IF ~g.ok THEN [ok |-> FALSE, self |-> g.self]
  ELSE [ok |-> TRUE,
        self |-> [g.self EXCEPT
                    !.m_bpc = codec.bits,
                    !.m_pDecoder =
                       IF codec.ok2 THEN JpegDecoder(codec) ELSE <<>>]]

\* OverrideComponents asking of an ICCBased space that it has no more
\* components than the header
OverrideComponentsIccAtMost(s, codec) ==
  LET colorspace_comps == CountComponents(s.m_pColorSpace)
      dwMinComps == ComponentsForFamily(s.m_Family)
      familyOk ==
        IF s.m_pColorSpace # null
        THEN CASE s.m_Family \in {"DeviceGray", "DeviceRGB", "DeviceCMYK"} ->
                    ~(colorspace_comps < dwMinComps
                        \/ s.m_nComponents < dwMinComps)
               [] s.m_Family = "Lab" ->
                    ~(s.m_nComponents # 3 \/ colorspace_comps < 3)
               [] s.m_Family = "ICCBased" ->
                    ~(~IsValidIccComponents(colorspace_comps)
                        \/ ~IsValidIccComponents(s.m_nComponents)
                        \/ colorspace_comps > s.m_nComponents)
               [] OTHER -> colorspace_comps = s.m_nComponents
        ELSE ~(s.m_Family = "Lab" /\ s.m_nComponents # 3)
  IN
  IF ~familyOk THEN [ok |-> FALSE, self |-> s]
  ELSE RecreateDecoder(GetDecodeAndMaskArray(s), codec)

\* CreateDCTDecoder where the header's component count differs; s is the
\* object with m_nComponents overridden and m_CompData cleared
OverrideComponents(s, codec) ==
  LET colorspace_comps == CountComponents(s.m_pColorSpace)
      dwMinComps == ComponentsForFamily(s.m_Family)
      familyOk ==
        IF s.m_pColorSpace # null
        THEN CASE s.m_Family \in {"DeviceGray", "DeviceRGB", "DeviceCMYK"} ->
                    ~(colorspace_comps < dwMinComps
                        \/ s.m_nComponents < dwMinComps)
               [] s.m_Family = "Lab" ->
                    ~(s.m_nComponents # 3 \/ colorspace_comps < 3)
               [] s.m_Family = "ICCBased" ->
                    ~(~IsValidIccComponents(colorspace_comps)
                        \/ ~IsValidIccComponents(s.m_nComponents)
                        \/ colorspace_comps < s.m_nComponents)
               [] OTHER -> colorspace_comps = s.m_nComponents
        ELSE ~(s.m_Family = "Lab" /\ s.m_nComponents # 3)
  IN
  IF ~familyOk THEN [ok |-> FALSE, self |-> s]
  ELSE RecreateDecoder(GetDecodeAndMaskArray(s), codec)

\* returns the object and the bool result
CreateDCTDecoder(self) ==
  LET codec == self.m_pDict[1].codec
      s0 == [self EXCEPT !.codecTouched = TRUE]
      s1 == [self EXCEPT !.codecTouched = TRUE,
                         !.m_Width = codec.width, !.m_Height = codec.height]
  IN
  IF codec.ok
  THEN [ok |-> TRUE, self |-> [s0 EXCEPT !.m_pDecoder = JpegDecoder(codec)]]
  ELSE IF ~codec.hasInfo THEN [ok |-> FALSE, self |-> s0]
  ELSE IF ~IsValidJpegComponent(codec.components)
            \/ ~IsValidJpegBitsPerComponent(codec.bits)
  THEN [ok |-> FALSE, self |-> s1]
  ELSE IF self.m_nComponents = codec.components
  THEN RecreateDecoder([ok |-> TRUE, self |-> s1], codec)
  ELSE OverrideComponents([s1 EXCEPT !.m_nComponents = codec.components,
                                     !.m_CompData = <<>>],
                          codec)

\* GetJpxDecodeAction without the test for the stock DeviceRGB
GetJpxDecodeActionByCount(jpx_info, pdf_colorspace) ==
  IF pdf_colorspace # null
  THEN IF jpx_info.components # CountComponents(pdf_colorspace)
       THEN IF CountComponents(pdf_colorspace) = 3 /\ jpx_info.components = 4
                 /\ jpx_info.srgb
            THEN "kConvertArgbToRgb"
            ELSE "kFail"
       ELSE IF jpx_info.components = 3 THEN "kUseRgb" ELSE "kDoNothing"
  ELSE CASE jpx_info.components = 3 -> "kUseRgb"
         [] jpx_info.components = 4 -> "kUseCmyk"
         [] OTHER -> "kDoNothing"

GetJpxDecodeAction(jpx_info, pdf_colorspace) ==
  IF pdf_colorspace # null
  THEN IF jpx_info.components # CountComponents(pdf_colorspace)
       THEN IF CountComponents(pdf_colorspace) = 3 /\ jpx_info.components = 4
                 /\ jpx_info.srgb
            THEN "kConvertArgbToRgb"
            ELSE "kFail"
       ELSE IF pdf_colorspace = "DeviceRGB" THEN "kUseRgb" ELSE "kDoNothing"
  ELSE CASE jpx_info.components = 3 -> "kUseRgb"
         [] jpx_info.components = 4 -> "kUseCmyk"
         [] OTHER -> "kDoNothing"

\* CFX_DIBitmap::Create of the given size: the bitmap's geometry
Bitmap(width, height, bpp) ==
  <<[width |-> width, height |-> height, bpp |-> bpp,
     pitch |-> CalculatePitch32(bpp, width)]>>

\* returns the object and the bitmap (<<>> for nullptr)
LoadJpxBitmap(self) ==
  LET pDict == self.m_pDict[1]
      image_info == pDict.codec
      s0 == [self EXCEPT !.codecTouched = TRUE]
      none == [bitmap |-> <<>>, self |-> s0]
  IN
  IF ~image_info.ok THEN none
  ELSE IF image_info.width < s0.m_Width \/ image_info.height < s0.m_Height
  THEN none
  ELSE
    LET original_colorspace == s0.m_pColorSpace
        action == GetJpxDecodeAction(image_info, s0.m_pColorSpace)
        convert_argb_to_rgb == action = "kConvertArgbToRgb"
        s1 == CASE action \in {"kUseRgb", "kConvertArgbToRgb"} ->
                     [s0 EXCEPT !.m_pColorSpace = null]
                [] action = "kUseCmyk" ->
                     [s0 EXCEPT !.m_pColorSpace = "DeviceCMYK"]
                [] OTHER -> s0
        s2 == IF original_colorspace # null THEN s1
              ELSE [s1 EXCEPT !.m_nComponents = image_info.components]
        width == IF image_info.components <= 4 THEN image_info.width
                 ELSE (image_info.width * image_info.components + 2) \div 3
        bpp == IF image_info.components = 1 THEN 8
               ELSE IF image_info.components = 4 THEN 32 ELSE 24
        s3 == IF convert_argb_to_rgb /\ pDict.SMaskInData = 1
                   /\ width * image_info.height > 0
              THEN [s2 EXCEPT !.m_JpxInlineData =
                       <<[width |-> width, height |-> image_info.height]>>]
              ELSE s2
    IN
    IF action = "kFail" THEN none
    ELSE IF ~image_info.ok2 THEN [bitmap |-> <<>>, self |-> s2]
    ELSE [bitmap |-> Bitmap(width, image_info.height,
                            IF convert_argb_to_rgb THEN 24 ELSE bpp),
          self |-> [s3 EXCEPT !.m_bpc = 8]]

\* the end of CreateDecoder, for the scanline decoders: c is the object and
\* whether the decoder's creation succeeded
CheckDecoderPitch(c) ==
  LET s == c.self
      requested_pitch ==
        CalculatePitch8(s.m_bpc, s.m_nComponents, s.m_Width)
      provided_pitch ==
        CalculatePitch8(s.m_pDecoder[1].bpc, s.m_pDecoder[1].comps,
                        s.m_pDecoder[1].width)
  IN
  [ret |-> IF ~c.ok THEN "Fail"
           ELSE IF s.m_pDecoder = <<>> THEN "Fail"
           ELSE IF requested_pitch = NoValue THEN "Fail"
           ELSE IF provided_pitch = NoValue THEN "Fail"
           ELSE IF provided_pitch < requested_pitch THEN "Fail"
           ELSE "Success",
   self |-> s]

\* KeepJpxBitmap adopting the decoded bitmap's size as the image's
KeepJpxBitmapResizing(j) ==
  [ret |-> IF j.bitmap # <<>> THEN "Success" ELSE "Fail",
   self |-> IF j.bitmap = <<>> THEN j.self
            ELSE [j.self EXCEPT !.m_pCachedBitmap = j.bitmap,
                                !.m_Width = j.bitmap[1].width + 1,
                                !.m_Height = j.bitmap[1].height]]

\* CreateDecoder for JPXDecode; j is what LoadJpxBitmap returned
KeepJpxBitmap(j) ==
  [ret |-> IF j.bitmap # <<>> THEN "Success" ELSE "Fail",
   self |-> [j.self EXCEPT !.m_pCachedBitmap = j.bitmap]]

\* returns the object and the LoadState
CreateDecoder(self) ==
  LET pDict == self.m_pDict[1]
      decoder == pDict.Filter
      codec == pDict.codec
      lazy == [bpc |-> self.m_bpc, comps |-> self.m_nComponents,
               width |-> self.m_Width]
  IN
  IF decoder = "" THEN [ret |-> "Success", self |-> self]
  ELSE IF self.m_bDoBpcCheck /\ self.m_bpc = 0
  THEN [ret |-> "Fail", self |-> self]
  ELSE IF decoder = "JPXDecode" THEN KeepJpxBitmap(LoadJpxBitmap(self))
  ELSE IF decoder = "JBIG2Decode"
  THEN IF ~codec.ok
       THEN [ret |-> "Fail", self |-> [self EXCEPT !.m_pCachedBitmap = <<>>]]
       ELSE [ret |-> "Continue",
             self |-> [self EXCEPT
                         !.m_pCachedBitmap =
                            Bitmap(self.m_Width, self.m_Height, 1),
                         !.m_Status = "Success"]]
  ELSE IF decoder \in {"CCITTFaxDecode", "FlateDecode", "RunLengthDecode"}
  THEN CheckDecoderPitch(
         [ok |-> TRUE,
          self |-> [self EXCEPT !.codecTouched = TRUE,
                                !.m_pDecoder =
                                   IF codec.ok THEN <<lazy>> ELSE <<>>]])
  ELSE IF decoder = "DCTDecode" THEN CheckDecoderPitch(CreateDCTDecoder(self))
  ELSE CheckDecoderPitch([ok |-> TRUE, self |-> self])

(***************************************************************************)
(* Colour values are rationals <<numerator, denominator>>; an ARGB value   *)
(* is the tuple <<a, r, g, b>> of its four bytes.                          *)
(***************************************************************************)
Clamp01(v) ==
  IF v[1] < 0 THEN <<0, 1>> ELSE IF v[1] > v[2] THEN <<1, 1>> ELSE v

\* FXSYS_roundf(v * 255) for v in [0, 1]
Round255(v) == (2 * 255 * v[1] + v[2]) \div (2 * v[2])

\* the colour table of the document's Indexed colour space
IndexedTable(i) == <<(i * 85) % 256, 255 - (i % 256), (i * 17) % 256>>

\* CPDF_ColorSpace::GetRGB: <<R, G, B>>, each a rational in [0, 1]
GetRGB(cs, values) ==
  CASE cs \in {"DeviceGray", "ICCBased1"} ->
         LET g == Clamp01(values[1]) IN <<g, g, g>>
    [] cs \in {"DeviceRGB", "ICCBased3"} ->
         <<Clamp01(values[1]), Clamp01(values[2]), Clamp01(values[3])>>
    [] cs \in {"DeviceCMYK", "ICCBased4"} ->
         LET k == Clamp01(values[4])
             inv(v) == LET c == Clamp01(v)
                           sum == <<c[1] * k[2] + k[1] * c[2], c[2] * k[2]>>
                           m == Clamp01(sum)
                       IN  <<m[2] - m[1], m[2]>>
         IN  <<inv(values[1]), inv(values[2]), inv(values[3])>>
    [] OTHER ->
         LET t == IndexedTable(values[1][1] \div values[1][2]) IN
         <<(<<t[1], 255>>), (<<t[2], 255>>), (<<t[3], 255>>)>>

\* ArgbEncode(a, FXSYS_roundf(R * 255), FXSYS_roundf(G * 255), ...)
ArgbEncode(a, rgb) ==
  <<a, Round255(rgb[1]), Round255(rgb[2]), Round255(rgb[3])>>

\* the decoded value of a stored code: m_DecodeMin + m_DecodeStep * code
DecodeValue(comp, code) ==
  <<comp.m_DecodeMin * comp.m_DecodeStep[2] + comp.m_DecodeStep[1] * code,
    comp.m_DecodeStep[2]>>

HasPalette(self) == self.m_palette # <<>>

\* LoadPalette counting the palette's entries from m_bpc alone
LoadPaletteOfOneComponent(self, flags) ==
  IF self.m_pColorSpace = null \/ self.m_Family = "Pattern" THEN self
  ELSE
    LET s0 == [self EXCEPT !.stdAtPalette =
                  IF flags[self.m_pColorSpace] THEN "on" ELSE "off"]
        bits == s0.m_bpc * s0.m_nComponents
        cs == s0.m_pColorSpace
    IN
    IF s0.m_bpc = 0 THEN s0
    ELSE IF bits > 8 THEN s0
    ELSE IF bits = 1
    THEN
      IF s0.m_bDefaultDecode /\ s0.m_Family \in {"DeviceGray", "DeviceRGB"}
      THEN s0
      ELSE IF CountComponents(cs) > 3 THEN s0
      ELSE
        LET v0 == DecodeValue(s0.m_CompData[1], 0)
            v1 == DecodeValue(s0.m_CompData[1], 1)
            argb0 == ArgbEncode(255, GetRGB(cs, <<v0, v0, v0>>))
            argb1 == ArgbEncode(255, GetRGB(cs, <<v1, v1, v1>>))
        IN  IF argb0 # <<255, 0, 0, 0>> \/ argb1 # <<255, 255, 255, 255>>
            THEN [s0 EXCEPT !.m_palette = <<argb0, argb1>>]
            ELSE s0
    ELSE IF s0.m_bpc = 8 /\ s0.m_bDefaultDecode /\ cs = "DeviceGray" THEN s0
    ELSE
      LET palette_count == 2 ^ s0.m_bpc
          entry(i) ==
            LET color_values ==
                  [j \in 1..16 |->
                     IF j <= s0.m_nComponents
                     THEN DecodeValue(s0.m_CompData[j],
                                      (i \div (2 ^ ((j - 1) * s0.m_bpc)))
                                         % (2 ^ s0.m_bpc))
                     ELSE <<0, 1>>]
                temp_buf ==
                  [k \in 1..CountComponents(cs) |-> color_values[1]]
            IN  IF s0.m_nComponents = 1 /\ s0.m_Family = "ICCBased"
                     /\ CountComponents(cs) > 1
                THEN ArgbEncode(255, GetRGB(cs, temp_buf))
                ELSE ArgbEncode(255, GetRGB(cs, color_values))
      IN  [s0 EXCEPT !.m_palette = [i \in 1..palette_count |-> entry(i - 1)]]

\* `flags` is the standard-conversion flag of every colour-space object
LoadPalette(self, flags) ==
  IF self.m_pColorSpace = null \/ self.m_Family = "Pattern" THEN self
  ELSE
    LET s0 == [self EXCEPT !.stdAtPalette =
                  IF flags[self.m_pColorSpace] THEN "on" ELSE "off"]
        bits == s0.m_bpc * s0.m_nComponents
        cs == s0.m_pColorSpace
    IN
    IF s0.m_bpc = 0 THEN s0
    ELSE IF bits > 8 THEN s0
    ELSE IF bits = 1
    THEN
      IF s0.m_bDefaultDecode /\ s0.m_Family \in {"DeviceGray", "DeviceRGB"}
      THEN s0
      ELSE IF CountComponents(cs) > 3 THEN s0
      ELSE
        LET v0 == DecodeValue(s0.m_CompData[1], 0)
            v1 == DecodeValue(s0.m_CompData[1], 1)
            argb0 == ArgbEncode(255, GetRGB(cs, <<v0, v0, v0>>))
            argb1 == ArgbEncode(255, GetRGB(cs, <<v1, v1, v1>>))
        IN  IF argb0 # <<255, 0, 0, 0>> \/ argb1 # <<255, 255, 255, 255>>
            THEN [s0 EXCEPT !.m_palette = <<argb0, argb1>>]
            ELSE s0
    ELSE IF s0.m_bpc = 8 /\ s0.m_bDefaultDecode /\ cs = "DeviceGray" THEN s0
    ELSE
      LET palette_count == 2 ^ bits
          entry(i) ==
            LET color_values ==
                  [j \in 1..16 |->
                     IF j <= s0.m_nComponents
                     THEN DecodeValue(s0.m_CompData[j],
                                      (i \div (2 ^ ((j - 1) * s0.m_bpc)))
                                         % (2 ^ s0.m_bpc))
                     ELSE <<0, 1>>]
                temp_buf ==
                  [k \in 1..CountComponents(cs) |-> color_values[1]]
            IN  IF s0.m_nComponents = 1 /\ s0.m_Family = "ICCBased"
                     /\ CountComponents(cs) > 1
                THEN ArgbEncode(255, GetRGB(cs, temp_buf))
                ELSE ArgbEncode(255, GetRGB(cs, color_values))
      IN  [s0 EXCEPT !.m_palette = [i \in 1..palette_count |-> entry(i - 1)]]

SetMaskProperties(self) ==
  [self EXCEPT !.m_bpc = 1, !.m_nComponents = 1, !.m_Format = "k1bppMask"]

MakeRGBFormat(bpp) ==
  CASE bpp = 1 -> "k1bppRgb" [] bpp = 8 -> "k8bppRgb" [] bpp = 24 -> "kRgb"
    [] bpp = 32 -> "kRgb32" [] OTHER -> "kInvalid"

GetBppFromFormat(format) ==
  CASE format \in {"k1bppMask", "k1bppRgb"} -> 1
    [] format \in {"k8bppMask", "k8bppRgb"} -> 8
    [] format = "kRgb" -> 24
    [] format \in {"kRgb32", "kArgb"} -> 32
    [] OTHER -> 0

\* a buffer from FX_Alloc: zero-filled.  A buffer is <<>> (no buffer) or
\* <<[head, fill]>>: the bytes `head` followed by `fill` up to its size.
NewBuffer == <<[head |-> <<>>, fill |-> 0]>>

EnableStdConversion(flags, cs, bEnabled) == [flags EXCEPT ![cs] = bEnabled]

\* the end of ContinueToLoadMask: s is the object after LoadPalette, pitch
\* the pitch of its format
AllocateMaskedLine(s, pitch, flags) ==
  LET pitch2 == CalculatePitch32(32, s.m_Width) IN
  IF ~s.m_bColorKey
  THEN [ok |-> TRUE, self |-> [s EXCEPT !.m_Pitch = pitch], flags |-> flags]
  ELSE IF pitch2 = NoValue
  THEN [ok |-> FALSE, self |-> [s EXCEPT !.m_Format = "kArgb"],
        flags |-> flags]
  ELSE [ok |-> TRUE,
        self |-> [s EXCEPT !.m_Format = "kArgb",
                           !.m_pMaskedLine = NewBuffer,
                           !.m_Pitch = pitch2],
        flags |-> flags]

\* ContinueToLoadMask from the line buffer on; s is the object with its
\* format set
AllocateLine(s, flags) ==
  LET pitch == CalculatePitch32(GetBppFromFormat(s.m_Format), s.m_Width)
      f2 == IF s.m_pColorSpace # null /\ s.m_bStdCS
            THEN EnableStdConversion(flags, s.m_pColorSpace, TRUE)
            ELSE flags
  IN
  IF pitch = NoValue THEN [ok |-> FALSE, self |-> s, flags |-> flags]
  ELSE AllocateMaskedLine(LoadPalette([s EXCEPT !.m_pLineBuf = NewBuffer], f2),
                          pitch, f2)

\* returns the object, the flags and the bool result
ContinueToLoadMask(self, flags) ==
  IF self.m_bImageMask THEN AllocateLine(SetMaskProperties(self), flags)
  ELSE IF self.m_bpc = 0 \/ self.m_nComponents = 0
  THEN [ok |-> FALSE, self |-> self, flags |-> flags]
  ELSE AllocateLine([self EXCEPT !.m_Format =
                       MakeRGBFormat(CalculateBitsPerPixel(self.m_bpc,
                                                           self.m_nComponents))],
                    flags)

(***************************************************************************)
(* Image streams.  A stream is its dictionary's entries, its bytes (data), *)
(* the codec's view of it (codec, and pixels: the samples it decodes the   *)
(* bytes to), and the stream its SMask / Mask entry refers to (sub: <<>>   *)
(* or <<stream>>).  Optional entries are <<>> or <<value>>.                *)
(***************************************************************************)
NoCodec ==
  [ok |-> FALSE, ok2 |-> FALSE, hasInfo |-> FALSE, width |-> 0, height |-> 0,
   components |-> 0, bits |-> 0, srgb |-> FALSE]

\* the dictionary StartLoadMask synthesizes around the JPX alpha channel
JpxInlineStream(inline) ==
  [Width |-> inline.width, Height |-> inline.height, BitsPerComponent |-> 8,
   ImageMask |-> FALSE, ColorSpace |-> "DeviceGray", Filter |-> "",
   Decode |-> <<>>, Mask |-> "none", MaskArray |-> <<>>, SMask |-> FALSE,
   SMaskInData |-> 0, Matte |-> <<>>, JBIG2Globals |-> FALSE,
   data |-> [i \in 1..(inline.width * inline.height) |-> 128],
   pixels |-> <<0>>, codec |-> NoCodec, sub |-> <<>>]

RECURSIVE StartLoadDIBBase(_, _, _, _, _, _, _)

\* StartLoadMaskDIB from the result r of the mask's StartLoadDIBBase on
KeepMask(self, r) ==
  IF r.ret = "Continue"
  THEN [ret |-> "Continue",
        self |-> [self EXCEPT
                    !.m_pMask = <<r.self>>,
                    !.m_Status = IF @ = "Fail" THEN "Continue" ELSE @],
        flags |-> r.flags, maskRet |-> r.ret]
  ELSE [ret |-> "Success",
        self |-> [self EXCEPT
                    !.m_pMask = IF r.ret = "Fail" THEN <<>> ELSE <<r.self>>],
        flags |-> r.flags, maskRet |-> r.ret]

\* returns the object, the flags, the LoadState and what the mask's own
\* StartLoadDIBBase returned
\* StartLoadMaskDIB asking the mask for a mask of its own
StartLoadMaskDIBNesting(self, mask, flags) ==
  KeepMask(self,
           StartLoadDIBBase(NewDIB, mask, mask[1].sub # <<>>, TRUE, "Unknown",
                            FALSE, flags))

StartLoadMaskDIB(self, mask, flags) ==
  KeepMask(self,
           StartLoadDIBBase(NewDIB, mask, FALSE, TRUE, "Unknown", FALSE, flags))

\* the m_MatteColor StartLoadMask computes from the SMask's Matte array
MatteOf(self, pMatte) ==
  IF pMatte # <<>> /\ self.m_pColorSpace # null /\ self.m_Family # "Pattern"
       /\ Len(pMatte[1]) = self.m_nComponents
       /\ CountComponents(self.m_pColorSpace) <= self.m_nComponents
  THEN ArgbEncode(0, GetRGB(self.m_pColorSpace,
                            [i \in 1..self.m_nComponents |->
                               <<pMatte[1][i], 1>>]))
  ELSE <<255, 255, 255, 255>>

StartLoadMask(self, flags) ==
  LET pDict == self.m_pDict[1]
      s0 == [self EXCEPT !.m_MatteColor = <<255, 255, 255, 255>>]
  IN
  IF self.m_JpxInlineData # <<>>
  THEN StartLoadMaskDIB(s0, <<JpxInlineStream(self.m_JpxInlineData[1])>>,
                        flags)
  ELSE IF pDict.SMask /\ pDict.sub # <<>>
  THEN StartLoadMaskDIB([self EXCEPT !.m_MatteColor =
                                        MatteOf(self, pDict.sub[1].Matte)],
                        pDict.sub, flags)
  ELSE IF pDict.Mask = "stream" /\ pDict.sub # <<>>
  THEN StartLoadMaskDIB(s0, pDict.sub, flags)
  ELSE [ret |-> "Success", self |-> s0, flags |-> flags, maskRet |-> "none"]

\* what StartLoadDIBBase returns: the LoadState, the object, the flags,
\* and the locals iCreatedDecoder and iLoadedMask ("none" where the call
\* did not get there) with what the mask's own StartLoadDIBBase returned
StartResult(r, s, f, c, m, mr) ==
  [ret |-> r, self |-> s, flags |-> f, iCreatedDecoder |-> c,
   iLoadedMask |-> m, maskRet |-> mr]

\* FinishStart looking at the decoder's LoadState only
FinishStartDecoderOnly(iCreatedDecoder, lm) ==
  IF iCreatedDecoder = "Continue"
  THEN StartResult("Continue", lm.self, lm.flags, iCreatedDecoder, lm.ret,
                   lm.maskRet)
  ELSE StartResult("Success", lm.self,
                   IF lm.self.m_pColorSpace # null /\ lm.self.m_bStdCS
                   THEN EnableStdConversion(lm.flags, lm.self.m_pColorSpace,
                                            FALSE)
                   ELSE lm.flags,
                   iCreatedDecoder, lm.ret, lm.maskRet)

\* the end of StartLoadDIBBase, from the two LoadStates on; lm is what
\* StartLoadMask returned (Success when no mask was asked for)
FinishStart(iCreatedDecoder, lm) ==
  IF iCreatedDecoder = "Continue" \/ lm.ret = "Continue"
  THEN StartResult("Continue", lm.self, lm.flags, iCreatedDecoder, lm.ret,
                   lm.maskRet)
  ELSE StartResult("Success", lm.self,
                   IF lm.self.m_pColorSpace # null /\ lm.self.m_bStdCS
                   THEN EnableStdConversion(lm.flags, lm.self.m_pColorSpace,
                                            FALSE)
                   ELSE lm.flags,
                   iCreatedDecoder, lm.ret, lm.maskRet)

\* StartLoadDIBBase from the result cm of ContinueToLoadMask on
LoadMaskOf(iCreatedDecoder, cm) ==
  IF ~cm.ok
  THEN StartResult("Fail", cm.self, cm.flags, iCreatedDecoder, "none", "none")
  ELSE FinishStart(iCreatedDecoder,
                   IF cm.self.m_bHasMask THEN StartLoadMask(cm.self, cm.flags)
                   ELSE [ret |-> "Success", self |-> cm.self,
                         flags |-> cm.flags, maskRet |-> "none"])

\* StartLoadDIBBase from the result cd of CreateDecoder on
LoadBuffersOf(cd, flags) ==
  IF cd.ret = "Fail"
  THEN StartResult("Fail", cd.self, flags, "none", "none", "none")
  ELSE LoadMaskOf(cd.ret, ContinueToLoadMask(cd.self, flags))

\* LoadStreamOf without the check of the size against 32 bits
LoadStreamOfUnchecked(s, flags) ==
  LET failed(x) == StartResult("Fail", x, flags, "none", "none", "none")
      loaded == [s EXCEPT !.m_pStreamAcc = "loaded"]
  IN
  IF s.m_bDoBpcCheck /\ (s.m_bpc = 0 \/ s.m_nComponents = 0) THEN failed(s)
  ELSE IF Len(s.m_pDict[1].data) = 0 THEN failed(loaded)
  ELSE LoadBuffersOf(CreateDecoder(loaded), flags)

\* StartLoadDIBBase from the size check on; s is the object after
\* LoadColorInfo
LoadStreamOf(s, flags) ==
  LET maybe_size == CalculatePitch8(s.m_bpc, s.m_nComponents, s.m_Width)
      failed(x) == StartResult("Fail", x, flags, "none", "none", "none")
      loaded == [s EXCEPT !.m_pStreamAcc = "loaded"]
  IN
  IF s.m_bDoBpcCheck /\ (s.m_bpc = 0 \/ s.m_nComponents = 0) THEN failed(s)
  ELSE IF maybe_size = NoValue THEN failed(s)
  ELSE IF MulOverflows32(maybe_size, s.m_Height) THEN failed(s)
  ELSE IF Len(s.m_pDict[1].data) = 0 THEN failed(loaded)
  ELSE LoadBuffersOf(CreateDecoder(loaded), flags)

\* StartLoadDIBBase from the result ci of LoadColorInfo on
LoadInfoOf(ci, flags) ==
  IF ~ci.ok
  THEN StartResult("Fail", ci.self, flags, "none", "none", "none")
  ELSE LoadStreamOf(ci.self, flags)

StartLoadDIBBase(self, pStream, bHasMask, bStdCS, GroupFamily, bLoadMask, flags) ==
  LET failed(x) == StartResult("Fail", x, flags, "none", "none", "none")
      s1 == [self EXCEPT
               !.m_pDict = pStream, !.m_bStdCS = bStdCS,
               !.m_bHasMask = bHasMask,
               !.m_Width = pStream[1].Width, !.m_Height = pStream[1].Height]
  IN
  IF pStream = <<>> THEN failed(self)
  ELSE IF ~IsValidDimension(s1.m_Width) \/ ~IsValidDimension(s1.m_Height)
  THEN failed(s1)
  ELSE LoadInfoOf(LoadColorInfo([s1 EXCEPT !.m_GroupFamily = GroupFamily,
                                           !.m_bLoadMask = bLoadMask]),
                  flags)

(***************************************************************************)
(* ContinueLoadDIBBase.  `st` is what the JBIG2 codec answers when this    *)
(* object calls it, `stMask` what it answers the mask sub-decoder.         *)
(* Dereferencing a null RetainPtr is undefined behaviour: the call either  *)
(* traps (ret "Crash": the process is gone) or goes on with whatever is    *)
(* read; `ub` chooses: "trap", or the decoder name read through the null   *)
(* m_pStreamAcc.                                                           *)
(***************************************************************************)
CodecStatus == {"kError", "kDecodeToBeContinued", "kDone"}

UBOutcome == {"trap", "JBIG2Decode", ""}

RECURSIVE ContinueLoadDIBBase(_, _, _, _, _)

\* what ContinueLoadDIBBase returns: the LoadState, the object, the flags
\* and what the mask's own ContinueLoadDIBBase returned ("none" when it was
\* not called)
ContinueResult(r, s, f, mr) ==
  [ret |-> r, self |-> s, flags |-> f, maskRet |-> mr]

\* MaskContinued leaving the standard-conversion flag as it is
MaskContinuedKeepingFlag(self, r) ==
  IF r.ret \in {"Continue", "Crash"}
  THEN ContinueResult(r.ret, [self EXCEPT !.m_pMask = <<r.self>>], r.flags,
                      r.ret)
  ELSE IF r.ret = "Fail"
  THEN ContinueResult("Fail", [self EXCEPT !.m_pMask = <<>>], r.flags, r.ret)
  ELSE ContinueResult("Success", [self EXCEPT !.m_pMask = <<r.self>>],
                      r.flags, r.ret)

\* ContinueLoadMaskDIB from the result r of the mask's ContinueLoadDIBBase on
MaskContinued(self, r) ==
  LET f == IF self.m_pColorSpace # null /\ self.m_bStdCS
           THEN EnableStdConversion(r.flags, self.m_pColorSpace, FALSE)
           ELSE r.flags
  IN
  IF r.ret \in {"Continue", "Crash"}
  THEN ContinueResult(r.ret, [self EXCEPT !.m_pMask = <<r.self>>], r.flags,
                      r.ret)
  ELSE IF r.ret = "Fail"
  THEN ContinueResult("Fail", [self EXCEPT !.m_pMask = <<>>], f, r.ret)
  ELSE ContinueResult("Success", [self EXCEPT !.m_pMask = <<r.self>>], f,
                      r.ret)

ContinueLoadMaskDIB(self, flags, stMask, ub) ==
  IF self.m_pMask = <<>> THEN ContinueResult("Success", self, flags, "none")
  ELSE MaskContinued(self,
         ContinueLoadDIBBase(self.m_pMask[1], flags, stMask, stMask, ub))

\* the end of ContinueLoadDIBBase, after the codec answered kDone; cm is
\* what ContinueLoadMaskDIB returned (Success when the image has no mask)
\* FinishContinue waiting for a mask that has failed
FinishContinueWaiting(cm) ==
  IF cm.ret = "Crash" THEN cm
  ELSE IF cm.ret \in {"Continue", "Fail"}
  THEN ContinueResult("Continue", [cm.self EXCEPT !.m_Status = "Continue"],
                      cm.flags, cm.maskRet)
  ELSE ContinueResult("Success", cm.self,
                      IF cm.self.m_pColorSpace # null /\ cm.self.m_bStdCS
                      THEN EnableStdConversion(cm.flags, cm.self.m_pColorSpace,
                                               FALSE)
                      ELSE cm.flags,
                      cm.maskRet)

FinishContinue(cm) ==
  IF cm.ret = "Crash" THEN cm
  ELSE IF cm.ret = "Continue"
  THEN ContinueResult("Continue", [cm.self EXCEPT !.m_Status = "Continue"],
                      cm.flags, cm.maskRet)
  ELSE ContinueResult("Success", cm.self,
                      IF cm.self.m_pColorSpace # null /\ cm.self.m_bStdCS
                      THEN EnableStdConversion(cm.flags, cm.self.m_pColorSpace,
                                               FALSE)
                      ELSE cm.flags,
                      cm.maskRet)

\* MapDecodeStatus continuing the mask while the codec is not done yet
MapDecodeStatusEager(s, flags, st, stMask, ub) ==
  IF st = "kError"
  THEN ContinueResult("Fail",
                      [s EXCEPT !.m_pJbig2Context = null,
                                !.m_pCachedBitmap = <<>>,
                                !.m_pGlobalAcc = null],
                      flags, "none")
  ELSE FinishContinue(IF s.m_bHasMask
                      THEN ContinueLoadMaskDIB(s, flags, stMask, ub)
                      ELSE ContinueResult("Success", s, flags, "none"))

\* MapDecodeStatus keeping the bitmap and the globals when the codec fails
MapDecodeStatusKeeping(s, flags, st, stMask, ub) ==
  IF st = "kError"
  THEN ContinueResult("Fail", [s EXCEPT !.m_pJbig2Context = null], flags,
                      "none")
  ELSE IF st = "kDecodeToBeContinued"
  THEN ContinueResult("Continue", s, flags, "none")
  ELSE FinishContinue(IF s.m_bHasMask
                      THEN ContinueLoadMaskDIB(s, flags, stMask, ub)
                      ELSE ContinueResult("Success", s, flags, "none"))

\* ContinueLoadDIBBase from the codec's answer st on; s is the object after
\* the call into the codec
MapDecodeStatus(s, flags, st, stMask, ub) ==
  IF st = "kError"
  THEN ContinueResult("Fail",
                      [s EXCEPT !.m_pJbig2Context = null,
                                !.m_pCachedBitmap = <<>>,
                                !.m_pGlobalAcc = null],
                      flags, "none")
  ELSE IF st = "kDecodeToBeContinued"
  THEN ContinueResult("Continue", s, flags, "none")
  ELSE FinishContinue(IF s.m_bHasMask
                      THEN ContinueLoadMaskDIB(s, flags, stMask, ub)
                      ELSE ContinueResult("Success", s, flags, "none"))

ContinueLoadDIBBase(self, flags, st, stMask, ub) ==
  LET decoder == IF self.m_pStreamAcc = null THEN ub
                 ELSE self.m_pDict[1].Filter
      first == self.m_pJbig2Context = null
  IN
  IF self.m_Status = "Continue"
  THEN ContinueLoadMaskDIB(self, flags, stMask, ub)
  ELSE IF self.m_pStreamAcc = null /\ ub = "trap"
  THEN ContinueResult("Crash", self, flags, "none")
  ELSE IF decoder = "JPXDecode" THEN ContinueResult("Fail", self, flags, "none")
  ELSE IF decoder # "JBIG2Decode"
  THEN ContinueResult("Success", self, flags, "none")
  ELSE IF self.m_Status = "Fail"
  THEN ContinueResult("Fail", self, flags, "none")
  ELSE IF first /\ self.m_pCachedBitmap = <<>> /\ ub = "trap"
  THEN ContinueResult("Crash", self, flags, "none")
  ELSE IF first
  THEN MapDecodeStatus(
         [self EXCEPT
            !.m_pJbig2Context = "created",
            !.m_pGlobalAcc =
               IF self.m_pDict[1].JBIG2Globals THEN "loaded" ELSE @,
            !.nStartDecode = @ + 1, !.codecTouched = TRUE],
         flags, st, stMask, ub)
  ELSE MapDecodeStatus([self EXCEPT !.nContinueDecode = @ + 1,
                                    !.codecTouched = TRUE],
                       flags, st, stMask, ub)

\* DetachMask handing out a copy of the pointer instead of moving it
DetachMaskCopying(self) ==
  [mask |-> self.m_pMask, self |-> self]

\* returns the object and the mask handed out (<<>> for none)
DetachMask(self) ==
  [mask |-> self.m_pMask, self |-> [self EXCEPT !.m_pMask = <<>>]]

\* whether GetBuffer returns a buffer (TRUE) or nullptr (FALSE)
GetBuffer(self) == self.m_pCachedBitmap # <<>>

(***************************************************************************)
(* GetScanline.  A row handed out is the buffer it points into and the     *)
(* buffer's bytes at that moment.  pSrcLine is the sequence of the bytes   *)
(* from the source pointer on.                                             *)
(***************************************************************************)
\* what the codec decodes the stream to: the stream's `pixels`, row after row
CodecRow(pDict, line, pitch) ==
  [i \in 1..pitch |->
     pDict.pixels[((line * pitch + i - 1) % Len(pDict.pixels)) + 1]]

\* memcpy / a loop storing `bytes` at the start of the buffer
Store(buffer, bytes) ==
  <<[head |-> bytes \o SubSeq(buffer[1].head, Len(bytes) + 1,
                                Len(buffer[1].head)),
     fill |-> buffer[1].fill]>>

\* memset(buffer, value, <size of the buffer>)
Fill(buffer, value) == <<[head |-> <<>>, fill |-> value]>>

TransMask(self) ==
  self.m_bLoadMask /\ self.m_GroupFamily = "DeviceCMYK"
    /\ self.m_Family = "DeviceCMYK"

\* static_cast<uint8_t>(v * 255) for v in [0, 1]
Trunc255(v) == (255 * v[1]) \div v[2]

\* (1 - c) * (1 - k)
TransMaskValue(c, k) == <<(c[2] - c[1]) * (k[2] - k[1]), c[2] * k[2]>>

\* color_values, padded with zeros as the vector of at least 16 floats is
Padded(values) ==
  [j \in 1..16 |-> IF j <= Len(values) THEN values[j] ELSE <<0, 1>>]

\* the <<B, G, R>> bytes of the pixel with the given decoded values
PixelBGR(self, values) ==
  LET v == Padded(values)
      rgb == IF TransMask(self)
             THEN <<TransMaskValue(v[1], v[4]), TransMaskValue(v[2], v[4]),
                    TransMaskValue(v[3], v[4])>>
             ELSE IF self.m_Family # "Pattern"
             THEN GetRGB(self.m_pColorSpace, v)
             ELSE <<(<<0, 1>>), (<<0, 1>>), (<<0, 1>>)>>
  IN  <<Trunc255(Clamp01(rgb[3])), Trunc255(Clamp01(rgb[2])),
        Trunc255(Clamp01(rgb[1]))>>

\* the stored code of component `color` of pixel `column` in a packed row
SampleAt(self, src_scan, column, color) ==
  GetBits8(src_scan, (column * self.m_nComponents + color) * self.m_bpc,
           self.m_bpc)

\* concatenation of the byte triples px[0], ..., px[width - 1]
Triples(width, px) ==
  [i \in 1..(width * 3) |-> px[(i - 1) \div 3][((i - 1) % 3) + 1]]

\* CPDF_ColorSpace::TranslateImageLine: the colour space converts a row of
\* 8-bit samples to BGR pixels
TranslateImageLine(self, src_scan) ==
  Triples(self.m_Width,
          [column \in 0..(self.m_Width - 1) |->
            PixelBGR(self, [j \in 1..self.m_nComponents |->
                              <<SampleAt(self, src_scan, column, j - 1), 255>>])])

\* TranslateScanline24bppDefaultDecode storing the 8-bit DeviceRGB pixels in
\* the order of the source
TranslateScanline24bppDefaultDecodeUnswapped(self, src_scan) ==
  IF ~self.m_bDefaultDecode THEN [done |-> FALSE, stored |-> <<>>]
  ELSE IF self.m_Family \notin {"DeviceRGB", "CalRGB"}
  THEN IF self.m_bpc # 8 THEN [done |-> FALSE, stored |-> <<>>]
       ELSE IF self.m_nComponents = CountComponents(self.m_pColorSpace)
       THEN [done |-> TRUE, stored |-> TranslateImageLine(self, src_scan)]
       ELSE [done |-> TRUE, stored |-> <<>>]
  ELSE IF self.m_nComponents # 3 THEN [done |-> TRUE, stored |-> <<>>]
  ELSE IF self.m_bpc = 8
  THEN [done |-> TRUE,
        stored |-> Triples(self.m_Width,
                     [column \in 0..(self.m_Width - 1) |->
                       <<src_scan[column * 3 + 1], src_scan[column * 3 + 2],
                         src_scan[column * 3 + 3]>>])]
  ELSE IF self.m_bpc = 16
  THEN [done |-> TRUE,
        stored |-> Triples(self.m_Width,
                     [col \in 0..(self.m_Width - 1) |->
                       <<src_scan[col * 6 + 5], src_scan[col * 6 + 3],
                         src_scan[col * 6 + 1]>>])]
  ELSE
    LET max_data == 2 ^ self.m_bpc - 1
        scaled(column, color) ==
          (Min(SampleAt(self, src_scan, column, color), max_data) * 255)
             \div max_data
    IN  [done |-> TRUE,
         stored |-> Triples(self.m_Width,
                      [column \in 0..(self.m_Width - 1) |->
                        <<scaled(column, 2), scaled(column, 1),
                          scaled(column, 0)>>])]

\* returns whether the fast path took the row, and the bytes it stored at
\* the start of dest_scan (<<>>: it stored nothing)
TranslateScanline24bppDefaultDecode(self, src_scan) ==
  IF ~self.m_bDefaultDecode THEN [done |-> FALSE, stored |-> <<>>]
  ELSE IF self.m_Family \notin {"DeviceRGB", "CalRGB"}
  THEN IF self.m_bpc # 8 THEN [done |-> FALSE, stored |-> <<>>]
       ELSE IF self.m_nComponents = CountComponents(self.m_pColorSpace)
       THEN [done |-> TRUE, stored |-> TranslateImageLine(self, src_scan)]
       ELSE [done |-> TRUE, stored |-> <<>>]
  ELSE IF self.m_nComponents # 3 THEN [done |-> TRUE, stored |-> <<>>]
  ELSE IF self.m_bpc = 8
  THEN [done |-> TRUE,
        stored |-> Triples(self.m_Width,
                     [column \in 0..(self.m_Width - 1) |->
                       <<src_scan[column * 3 + 3], src_scan[column * 3 + 2],
                         src_scan[column * 3 + 1]>>])]
  ELSE IF self.m_bpc = 16
  THEN [done |-> TRUE,
        stored |-> Triples(self.m_Width,
                     [col \in 0..(self.m_Width - 1) |->
                       <<src_scan[col * 6 + 5], src_scan[col * 6 + 3],
                         src_scan[col * 6 + 1]>>])]
  ELSE
    LET max_data == 2 ^ self.m_bpc - 1
        scaled(column, color) ==
          (Min(SampleAt(self, src_scan, column, color), max_data) * 255)
             \div max_data
    IN  [done |-> TRUE,
         stored |-> Triples(self.m_Width,
                      [column \in 0..(self.m_Width - 1) |->
                        <<scaled(column, 2), scaled(column, 1),
                          scaled(column, 0)>>])]

\* the bytes TranslateScanline24bpp stores at the start of dest_scan
TranslateScanline24bpp(self, src_scan) ==
  IF self.m_bpc = 0 THEN <<>>
  ELSE
    LET fast == TranslateScanline24bppDefaultDecode(self, src_scan) IN
    IF fast.done THEN fast.stored
    ELSE Triples(self.m_Width,
           [column \in 0..(self.m_Width - 1) |->
             PixelBGR(self, [j \in 1..self.m_nComponents |->
                               DecodeValue(self.m_CompData[j],
                                           SampleAt(self, src_scan, column,
                                                    j - 1))])])

Get1BitSetValue(self) ==
  IF self.m_CompData[1].m_ColorKeyMax = 1 THEN <<0, 0, 0, 0>>
  ELSE IF HasPalette(self) THEN self.m_palette[2]
  ELSE <<255, 255, 255, 255>>

Get1BitResetValue(self) ==
  IF self.m_CompData[1].m_ColorKeyMin = 0 THEN <<0, 0, 0, 0>>
  ELSE IF HasPalette(self) THEN self.m_palette[1]
  ELSE <<255, 0, 0, 0>>

\* concatenation of the 4-byte pixels px[0], ..., px[width - 1]
Quads(width, px) ==
  [i \in 1..(width * 4) |-> px[(i - 1) \div 4][((i - 1) % 4) + 1]]

\* an ARGB value as it lies in memory
ArgbBytes(argb) == <<argb[4], argb[3], argb[2], argb[1]>>

\* byte i (from 1) of a buffer
ReadAt(buffer, i) ==
  IF i <= Len(buffer[1].head) THEN buffer[1].head[i] ELSE buffer[1].fill

\* what GetScanline hands out: nullptr, or a row: the buffer the pointer
\* points into (m_pLineBuf, m_pMaskedLine, or the source itself: pSrcLine),
\* its bytes, and where the source row came from
NullRow ==
  [kind |-> "null", buf |-> "", head |-> <<>>, fill |-> 0, from |-> ""]

CrashRow ==
  [kind |-> "crash", buf |-> "", head |-> <<>>, fill |-> 0, from |-> ""]

RowOf(name, buffer, from) ==
  [kind |-> "row", buf |-> name, head |-> buffer[1].head,
   fill |-> buffer[1].fill, from |-> from]

\* GetScanline returns the object (its buffers are `mutable` scratch space)
\* and the row.
Handed(row, s) == [row |-> row, self |-> s]

LineRow(s, from) == Handed(RowOf("m_pLineBuf", s.m_pLineBuf, from), s)

MaskedRow(s, from) == Handed(RowOf("m_pMaskedLine", s.m_pMaskedLine, from), s)

\* Undefined behaviour in GetScanline: reading through a null m_pStreamAcc,
\* and storing through a null m_pLineBuf / m_pMaskedLine; `ub` = "trap" is
\* the build where that access faults, otherwise the access has no effect
\* (nothing is read, nothing is stored) and the null pointer is returned.
Lost(self, ub) ==
  IF ub = "trap" THEN Handed(CrashRow, self) ELSE Handed(NullRow, self)

\* FillLine always filling m_pLineBuf
FillLineBuf(self, from, ub) ==
  IF self.m_pLineBuf = <<>> THEN Lost(self, ub)
  ELSE LineRow(IF self.m_Pitch = 0 THEN self
               ELSE [self EXCEPT !.m_pLineBuf = Fill(@, 255)], from)

\* GetScanline when no source row is available: a row of 0xFF
FillLine(self, from, ub) ==
  IF self.m_pMaskedLine = <<>> /\ self.m_pLineBuf = <<>>
  THEN IF self.m_Pitch = 0 THEN Handed(NullRow, self) ELSE Lost(self, ub)
  ELSE IF self.m_pMaskedLine # <<>>
  THEN MaskedRow(IF self.m_Pitch = 0 THEN self
                 ELSE [self EXCEPT !.m_pMaskedLine = Fill(@, 255)], from)
  ELSE LineRow(IF self.m_Pitch = 0 THEN self
               ELSE [self EXCEPT !.m_pLineBuf = Fill(@, 255)], from)

\* GetScanline's 1-bit path copying an image mask's row as it is
Scan1BitCopying(self, pSrcLine, from, src_pitch, ub) ==
  IF self.m_pLineBuf = <<>> THEN Lost(self, ub)
  ELSE LineRow([self EXCEPT !.m_pLineBuf =
                  Store(@, SubSeq(pSrcLine, 1, src_pitch))],
               from)

\* GetScanline for m_bpc * m_nComponents = 1
Scan1Bit(self, pSrcLine, from, src_pitch, ub) ==
  IF self.m_bImageMask /\ self.m_bDefaultDecode
  THEN IF self.m_pLineBuf = <<>> THEN Lost(self, ub)
       ELSE LineRow([self EXCEPT !.m_pLineBuf =
                       Store(@, [i \in 1..src_pitch |-> 255 - pSrcLine[i]])],
                    from)
  ELSE IF ~self.m_bColorKey
  THEN IF self.m_pLineBuf = <<>> THEN Lost(self, ub)
       ELSE LineRow([self EXCEPT !.m_pLineBuf =
                       Store(@, SubSeq(pSrcLine, 1, src_pitch))],
                    from)
  ELSE IF self.m_pMaskedLine = <<>> THEN Lost(self, ub)
  ELSE MaskedRow(
         [self EXCEPT !.m_pMaskedLine =
            Store(@, Quads(self.m_Width,
                           [col \in 0..(self.m_Width - 1) |->
                             ArgbBytes(IF GetBitValue(pSrcLine, col)
                                       THEN Get1BitSetValue(self)
                                       ELSE Get1BitResetValue(self))]))],
         from)

\* the components' codes of pixel col, component `color` shifted left by
\* color * m_bpc (the fields do not overlap, so | is +), as a uint8_t
RECURSIVE ColorIndex(_, _, _, _)

ColorIndex(self, pSrcLine, col, color) ==
  IF color = self.m_nComponents THEN 0
  ELSE (SampleAt(self, pSrcLine, col, color) * (2 ^ (color * self.m_bpc))
          + ColorIndex(self, pSrcLine, col, color + 1)) % 256

\* the indexed path from the colour key on; s is the object with the
\* indices in m_pLineBuf
MaskIndexed(s, from, ub) ==
  IF ~s.m_bColorKey THEN LineRow(s, from)
  ELSE IF s.m_pMaskedLine = <<>> THEN Lost(s, ub)
  ELSE MaskedRow(
         [s EXCEPT !.m_pMaskedLine =
            Store(@, Quads(s.m_Width,
                           [col \in 0..(s.m_Width - 1) |->
                             LET index == ReadAt(s.m_pLineBuf, col + 1)
                                 alpha ==
                                   IF IsColorIndexOutOfBounds(
                                        index, s.m_CompData[1])
                                   THEN 255 ELSE 0
                             IN  IF HasPalette(s)
                                 THEN <<s.m_palette[index + 1][4],
                                        s.m_palette[index + 1][3],
                                        s.m_palette[index + 1][2], alpha>>
                                 ELSE <<index, index, index, alpha>>]))],
         from)

\* GetScanline for 1 < m_bpc * m_nComponents <= 8
ScanIndexed(self, pSrcLine, from, src_pitch, ub) ==
  IF self.m_pLineBuf = <<>> THEN Lost(self, ub)
  ELSE IF self.m_bpc = 8
  THEN MaskIndexed([self EXCEPT !.m_pLineBuf =
                      Store(@, SubSeq(pSrcLine, 1, src_pitch))],
                   from, ub)
  ELSE MaskIndexed([self EXCEPT !.m_pLineBuf =
                      Store(@, [i \in 1..self.m_Width |->
                                  ColorIndex(self, pSrcLine, i - 1, 0)])],
                   from, ub)

\* the alpha byte the 24-bpp path gives pixel col of a colour-keyed image
KeyAlpha(self, pSrcLine, col) ==
  IF self.m_nComponents = 3 /\ self.m_bpc = 8
  THEN IF AreColorIndicesOutOfBounds(
            SubSeq(pSrcLine, col * 3 + 1, col * 3 + 3), self.m_CompData, 3)
       THEN 255 ELSE 0
  ELSE 255

\* the end of the 24-bpp path: the BGR pixels `bgr` and the alpha bytes
\* go into m_pMaskedLine
MaskPixels(s, pSrcLine, bgr, from) ==
  MaskedRow(
    [s EXCEPT !.m_pMaskedLine =
       Store(IF s.m_nComponents = 3 /\ s.m_bpc = 8 THEN @ ELSE Fill(@, 255),
             Quads(s.m_Width,
                   [col \in 0..(s.m_Width - 1) |->
                     <<bgr[col * 3 + 1], bgr[col * 3 + 2], bgr[col * 3 + 3],
                       KeyAlpha(s, pSrcLine, col)>>]))],
    from)

\* the 24-bpp path with a colour space; s is the object with the
\* translated row in m_pLineBuf
Translated(s, pSrcLine, from) ==
  IF ~s.m_bColorKey THEN LineRow(s, from)
  ELSE MaskPixels(s, pSrcLine,
                  [i \in 1..(s.m_Width * 3) |-> ReadAt(s.m_pLineBuf, i)],
                  from)

\* GetScanline for m_bpc * m_nComponents > 8
Scan24bpp(self, pSrcLine, from, src_pitch, ub) ==
  IF self.m_bColorKey /\ self.m_pMaskedLine = <<>> THEN Lost(self, ub)
  ELSE IF self.m_pColorSpace # null
  THEN IF self.m_pLineBuf = <<>> THEN Lost(self, ub)
       ELSE Translated([self EXCEPT !.m_pLineBuf =
                          Store(@, TranslateScanline24bpp(self, pSrcLine))],
                       pSrcLine, from)
  ELSE IF ~self.m_bColorKey
  THEN Handed(RowOf("pSrcLine",
                    <<[head |-> SubSeq(pSrcLine, 1, src_pitch), fill |-> 0]>>,
                    from),
              self)
  ELSE MaskPixels(self, pSrcLine, pSrcLine, from)

\* GetScanline from the source row on; from is where the row came from
\* ("ub": m_pStreamAcc is null, "none": the stream is too short)
ScanFrom(self, pSrcLine, from, src_pitch, ub) ==
  IF from = "ub" /\ ub = "trap" THEN Handed(CrashRow, self)
  ELSE IF from \in {"ub", "none"} THEN FillLine(self, from, ub)
  ELSE IF self.m_bpc * self.m_nComponents = 1
  THEN Scan1Bit(self, pSrcLine, from, src_pitch, ub)
  ELSE IF self.m_bpc * self.m_nComponents <= 8
  THEN ScanIndexed(self, pSrcLine, from, src_pitch, ub)
  ELSE Scan24bpp(self, pSrcLine, from, src_pitch, ub)

\* where GetScanline takes line `line` from
SourceOf(self, line, src_pitch) ==
  IF self.m_pCachedBitmap # <<>>
       /\ src_pitch <= self.m_pCachedBitmap[1].pitch THEN "cached"
  ELSE IF self.m_pDecoder # <<>> THEN "decoder"
  ELSE IF self.m_pStreamAcc = null THEN "ub"
  ELSE IF Len(self.m_pDict[1].data) >= (line + 1) * src_pitch THEN "raw"
  ELSE "none"

\* the bytes from pSrcLine on
SourceLine(self, line, src_pitch, from) ==
  CASE from = "cached" ->
         CodecRow(self.m_pDict[1],
                  IF line >= self.m_pCachedBitmap[1].height
                  THEN self.m_pCachedBitmap[1].height - 1 ELSE line,
                  self.m_pCachedBitmap[1].pitch)
    [] from = "decoder" ->
         CodecRow(self.m_pDict[1], line,
                  CalculatePitch8(self.m_pDecoder[1].bpc,
                                  self.m_pDecoder[1].comps,
                                  self.m_pDecoder[1].width))
    [] from = "raw" ->
         SubSeq(self.m_pDict[1].data, line * src_pitch + 1,
                Len(self.m_pDict[1].data))
    [] OTHER -> <<>>

\* GetScanline from the source choice on
ScanAt(self, line, src_pitch, from, ub) ==
  ScanFrom(self, SourceLine(self, line, src_pitch, from), from, src_pitch, ub)

GetScanline(self, line, ub) ==
  IF self.m_bpc = 0 THEN Handed(NullRow, self)
  ELSE IF CalculatePitch8(self.m_bpc, self.m_nComponents, self.m_Width)
            = NoValue
  THEN Handed(NullRow, self)
  ELSE ScanAt(self, line,
              CalculatePitch8(self.m_bpc, self.m_nComponents, self.m_Width),
              SourceOf(self, line,
                       CalculatePitch8(self.m_bpc, self.m_nComponents,
                                       self.m_Width)),
              ub)

(***************************************************************************)
(* The images the decoder is run on.                                       *)
(***************************************************************************)
Payload == <<0, 255, 16, 7, 64, 200, 1, 90>>

BaseStream ==
  [Width |-> 2, Height |-> 1, BitsPerComponent |-> 8, ImageMask |-> FALSE,
   ColorSpace |-> "DeviceGray", Filter |-> "", Decode |-> <<>>,
   Mask |-> "none", MaskArray |-> <<>>, SMask |-> FALSE, SMaskInData |-> 0,
   Matte |-> <<>>, JBIG2Globals |-> FALSE, data |-> Payload,
   pixels |-> <<5, 250, 100>>, codec |-> NoCodec, sub |-> <<>>]

\* a codec that opens the stream and reads this header from it
Header(width, height, components, bits) ==
  [ok |-> TRUE, ok2 |-> TRUE, hasInfo |-> TRUE, width |-> width,
   height |-> height, components |-> components, bits |-> bits,
   srgb |-> FALSE]

\* dimensions at and around the limits, unfiltered
Dimensions == {0, 1, 32768, 131071, 131072}

\* <<BitsPerComponent, ColorSpace>> giving 8, 16, 32 and 48 bits per pixel
Depths ==
  {<<8, "DeviceGray">>, <<16, "DeviceGray">>, <<8, "DeviceCMYK">>,
   <<16, "DeviceRGB">>}

DimensionStreams ==
  {[BaseStream EXCEPT !.Width = w, !.Height = h, !.BitsPerComponent = d[1],
                      !.ColorSpace = d[2]] :
     w \in Dimensions, h \in Dimensions, d \in Depths}

\* dimensions out of range on streams a codec would accept
RejectedStreams ==
  {[BaseStream EXCEPT !.Width = wh[1], !.Height = wh[2], !.Filter = f,
                      !.codec = Header(2, 1, 1, 8)] :
     wh \in {<<0, 1>>, <<131072, 1>>, <<2, 0>>, <<2, 131072>>, <<-1, -1>>},
     f \in {"FlateDecode", "DCTDecode", "JPXDecode", "JBIG2Decode"}}

\* every filter, with a codec that accepts the stream, one that rejects it,
\* and for DCT and JPX the headers that differ from the dictionary
Codecs(filter) ==
  CASE filter = "DCTDecode" ->
         {Header(2, 1, 1, 8), Header(2, 1, 3, 8),
          [Header(2, 1, 3, 8) EXCEPT !.ok = FALSE],
          [Header(3, 2, 3, 8) EXCEPT !.ok = FALSE],
          [Header(2, 1, 1, 8) EXCEPT !.ok = FALSE, !.ok2 = FALSE],
          [Header(2, 1, 4, 12) EXCEPT !.ok = FALSE], NoCodec}
    [] filter = "JPXDecode" ->
         {Header(2, 1, 1, 8), Header(2, 1, 3, 8), Header(2, 1, 4, 8),
          [Header(2, 1, 4, 8) EXCEPT !.srgb = TRUE],
          [Header(2, 1, 3, 8) EXCEPT !.ok2 = FALSE],
          Header(1, 1, 3, 8), NoCodec}
    [] filter \in {"JBIG2Decode", "FlateDecode", "CCITTFaxDecode"} ->
         {Header(2, 1, 1, 8), NoCodec}
    [] OTHER -> {NoCodec}

Filters ==
  {"", "FlateDecode", "CCITTFaxDecode", "DCTDecode", "JPXDecode",
   "JBIG2Decode", "Invalid"}

FilterStreams ==
  {[BaseStream EXCEPT !.Filter = f, !.codec = c, !.ColorSpace = cs,
                      !.SMaskInData = IF c.srgb THEN 1 ELSE 0] :
     f \in Filters, c \in UNION {Codecs(g) : g \in Filters},
     cs \in {null, "DeviceGray", "DeviceRGB"}}

\* keeps the codecs that belong to the stream's filter
OfItsFilter(streams) == {x \in streams : x.codec \in Codecs(x.Filter)}

\* declared BitsPerComponent in and out of range, image masks, Decode arrays
DepthStreams ==
  {[BaseStream EXCEPT !.Filter = f, !.codec = Header(2, 1, 1, 8),
                      !.BitsPerComponent = b, !.ColorSpace = cs,
                      !.ImageMask = im, !.Decode = d] :
     f \in {"", "FlateDecode"}, b \in {0, 1, 3, 8, 16, 17},
     cs \in {"DeviceGray", "Indexed", "Pattern"}, im \in BOOLEAN,
     d \in {<<>>, <<(<<1, 0>>)>>}}
  \cup
  {[BaseStream EXCEPT !.Filter = "JPXDecode", !.codec = Header(2, 1, 1, 8),
                      !.BitsPerComponent = b, !.ColorSpace = cs] :
     b \in {1, 3, 16, 17}, cs \in {"DeviceGray", "Indexed"}}

\* the streams an SMask / Mask entry refers to: one that loads at once, one
\* with a Matte, one that is rejected, one whose codec is rejected, and
\* JBIG2 ones, which load progressively
MaskStreams ==
  {[BaseStream EXCEPT !.Width = 1],
   [BaseStream EXCEPT !.Width = 1, !.Matte = <<(<<1>>)>>],
   [BaseStream EXCEPT !.Width = 0],
   [BaseStream EXCEPT !.Filter = "JBIG2Decode"],
   [BaseStream EXCEPT !.Filter = "JBIG2Decode", !.JBIG2Globals = TRUE,
                      !.codec = Header(2, 1, 1, 8)]}

MaskedStreams ==
  {[BaseStream EXCEPT !.Filter = f, !.codec = Header(2, 1, 1, 8),
                      !.ColorSpace = cs, !.SMask = sm,
                      !.Mask = IF sm THEN "none" ELSE "stream",
                      !.sub = <<m>>] :
     f \in {"", "JBIG2Decode"}, cs \in {"DeviceGray", "DeviceRGB"},
     sm \in BOOLEAN, m \in MaskStreams}

\* colour keys (Mask arrays), alone and beside an SMask
KeyedStreams ==
  {[BaseStream EXCEPT !.ColorSpace = cs, !.BitsPerComponent = b,
                      !.Mask = "array", !.MaskArray = k, !.SMask = sm,
                      !.sub = IF sm THEN <<[BaseStream EXCEPT !.Width = 1]>>
                              ELSE <<>>] :
     cs \in {"DeviceGray", "DeviceRGB"}, b \in {1, 8},
     k \in {<<0, 0>>, <<0, 255, 0, 255, 0, 255>>}, sm \in BOOLEAN}

\* a colour space the document does not resolve
UnresolvedStreams == {[BaseStream EXCEPT !.ColorSpace = "Separation"]}

\* a JBIG2 image whose parameters name a JBIG2Globals stream
GlobalsStreams ==
  {[BaseStream EXCEPT !.Filter = "JBIG2Decode", !.JBIG2Globals = TRUE,
                      !.codec = Header(2, 1, 1, 8)]}

Streams ==
  OfItsFilter(FilterStreams) \cup DepthStreams \cup MaskedStreams
    \cup KeyedStreams \cup UnresolvedStreams \cup GlobalsStreams

\* a call to StartLoadDIBBase: the mask is asked for when the image has one
CallOn(x, stdcs) ==
  [pStream |-> <<x>>, bHasMask |-> (x.sub # <<>> \/ x.SMaskInData = 1),
   bStdCS |-> stdcs,
   GroupFamily |-> IF x.ColorSpace = "DeviceCMYK" THEN "DeviceCMYK"
                   ELSE "Unknown",
   bLoadMask |-> x.ColorSpace = "DeviceCMYK"]

\* the calls made: a null stream, and every stream with and without bStdCS
Calls ==
  {[pStream |-> <<>>, bHasMask |-> FALSE, bStdCS |-> FALSE,
    GroupFamily |-> "Unknown", bLoadMask |-> FALSE]}
  \cup {CallOn(x, FALSE) : x \in DimensionStreams \cup RejectedStreams}
  \cup {CallOn(x, stdcs) : x \in Streams, stdcs \in BOOLEAN}

\* Mask arrays of n components: every code 0 only, every code, and a
\* range per component that differs from the first one's
KeyArrays(n) ==
  {[i \in 1..(2 * n) |-> 0],
   [i \in 1..(2 * n) |-> IF i % 2 = 1 THEN 0 ELSE 255],
   [i \in 1..(2 * n) |-> IF i = 1 THEN 0 ELSE IF i = 2 THEN 3 ELSE 1]}

\* the bytes of the colour-keyed streams
Payloads ==
  {<<0, 0, 0, 0, 0, 0, 0, 0>>, Payload, <<1, 1, 1, 1, 1, 1, 1, 1>>}

\* unfiltered colour-keyed images of one row, 1 or 2 pixels wide
ScanStreams ==
  {[BaseStream EXCEPT !.Width = w, !.ColorSpace = cs, !.BitsPerComponent = b,
                      !.Mask = "array", !.MaskArray = k, !.data = d] :
     w \in {1, 2},
     cs \in {"DeviceGray", "DeviceRGB", "DeviceCMYK", "Indexed"},
     b \in {1, 2, 8},
     k \in UNION {KeyArrays(n) : n \in {1, 3, 4}}, d \in Payloads}

\* the Mask array has the two entries of every component
OfItsComponents(streams) ==
  {x \in streams : Len(x.MaskArray) = 2 * CountComponents(x.ColorSpace)}

ScanCalls ==
  {[pStream |-> <<x>>, bHasMask |-> FALSE, bStdCS |-> FALSE,
    GroupFamily |-> "Unknown", bLoadMask |-> FALSE] :
     x \in OfItsComponents(ScanStreams)}

\* image masks of two rows, 8 and 9 pixels wide, without a Decode array and
\* with the Decode arrays [0 1] and [1 0]
MaskRowStreams ==
  {[BaseStream EXCEPT !.Width = w, !.Height = 2, !.BitsPerComponent = 1,
                      !.ColorSpace = null, !.ImageMask = TRUE, !.Decode = d,
                      !.data = x] :
     w \in {8, 9}, d \in {<<>>, <<(<<0, 1>>)>>, <<(<<1, 0>>)>>},
     x \in {<<177, 78, 0, 255>>, <<177, 78, 0>>, <<177>>}}

\* DeviceRGB images of 8 bits per component, one and two rows of two
\* pixels, the second row held by the stream or cut short
RgbRowStreams ==
  {[BaseStream EXCEPT !.Width = 2, !.Height = h, !.ColorSpace = "DeviceRGB",
                      !.Decode = d, !.data = x] :
     h \in {1, 2},
     d \in {<<>>, <<(<<0, 1, 0, 1, 0, 1>>)>>, <<(<<1, 0, 1, 0, 1, 0>>)>>},
     x \in {<<10, 20, 30, 40, 50, 60>>,
            <<10, 20, 30, 40, 50, 60, 1, 2, 3, 4, 5, 6>>,
            <<10, 20, 30, 40, 50, 60, 1, 2, 3>>}}

\* colour-keyed images of two rows whose second row the stream holds or
\* does not hold
KeyedRowStreams ==
  {[BaseStream EXCEPT !.Width = 2, !.Height = 2, !.ColorSpace = cs[1],
                      !.Mask = "array", !.MaskArray = cs[2], !.data = x] :
     cs \in {<<"DeviceRGB", <<0, 0, 0, 0, 0, 0>>>>, <<"DeviceGray", <<0, 0>>>>},
     x \in {<<10, 20, 30, 40, 50, 60>>, <<0, 0>>,
            <<10, 20, 30, 40, 50, 60, 1, 2, 3, 4, 5, 6>>}}

\* JPX images of 2 x 2 pixels: every colour space against every component
\* count of the JPX image, sRGB or not, the JPX image as large as declared,
\* narrower, lower and larger
JpxStreams ==
  {[BaseStream EXCEPT !.Height = 2, !.Filter = "JPXDecode", !.ColorSpace = cs,
                      !.codec = [Header(wh[1], wh[2], n, 8)
                                   EXCEPT !.srgb = srgb]] :
     cs \in {null, "DeviceGray", "DeviceRGB", "CalRGB", "DeviceCMYK",
             "Indexed"},
     n \in 1..5, srgb \in BOOLEAN,
     wh \in {<<2, 2>>, <<1, 2>>, <<2, 1>>, <<3, 3>>}}

JpxCalls ==
  {[pStream |-> <<x>>, bHasMask |-> FALSE, bStdCS |-> FALSE,
    GroupFamily |-> "Unknown", bLoadMask |-> FALSE] : x \in JpxStreams}

\* DCT images whose first decoder creation fails, with JPEG headers of 1 to
\* 4 components and 8 or 12 bits, over the colour-space families; and ones
\* whose first creation succeeds.  Lab images only with a header whose
\* component count differs from 3.
DctStreams ==
  {[BaseStream EXCEPT !.Filter = "DCTDecode", !.ColorSpace = cs,
                      !.codec = [Header(2, 1, n, b) EXCEPT !.ok = FALSE]] :
     cs \in {"DeviceGray", "DeviceRGB", "DeviceCMYK", "ICCBased1",
             "ICCBased3", "ICCBased4", "Indexed", "CalRGB"},
     n \in 1..4, b \in {8, 12}}
  \cup
  {[BaseStream EXCEPT !.Filter = "DCTDecode", !.ColorSpace = "Lab",
                      !.codec = [Header(2, 1, n, b) EXCEPT !.ok = FALSE]] :
     n \in {1, 2, 4}, b \in {8, 12}}
  \cup
  {[BaseStream EXCEPT !.Filter = "DCTDecode", !.ColorSpace = cs,
                      !.codec = Header(2, 1, CountComponents(cs), 8)] :
     cs \in {"DeviceGray", "DeviceRGB", "ICCBased4"}}

\* every filter against declared BitsPerComponent in and out of range, on
\* DeviceGray and DeviceRGB images (JPX not with 0 declared bits)
BpcStreams ==
  {[BaseStream EXCEPT !.Filter = f, !.BitsPerComponent = b, !.ColorSpace = cs,
                      !.codec = IF f = "" THEN NoCodec
                                ELSE Header(2, 1, CountComponents(cs), 8)] :
     f \in {"", "FlateDecode", "CCITTFaxDecode", "DCTDecode", "JBIG2Decode"},
     b \in {-1, 0, 1, 2, 3, 4, 8, 16, 17},
     cs \in {"DeviceGray", "DeviceRGB"}}
  \cup
  {[BaseStream EXCEPT !.Filter = "JPXDecode", !.BitsPerComponent = b,
                      !.ColorSpace = cs,
                      !.codec = Header(2, 1, CountComponents(cs), 8)] :
     b \in {-1, 1, 2, 3, 4, 8, 16, 17}, cs \in {"DeviceGray", "DeviceRGB"}}

\* images with and without an SMask, with no Mask, a Mask array (empty,
\* shorter than and as long as twice the components) or a Mask stream;
\* image masks, images without a colour space and with one the document
\* does not resolve among them
KeyStreams ==
  {[BaseStream EXCEPT !.Filter = f, !.codec = Header(2, 1, 1, 8),
                      !.ColorSpace = cs, !.ImageMask = im, !.Mask = mk,
                      !.MaskArray = IF mk = "array" THEN k ELSE <<>>,
                      !.SMask = sm,
                      !.sub = IF sm \/ mk = "stream"
                              THEN <<[BaseStream EXCEPT !.Width = 1]>>
                              ELSE <<>>] :
     f \in {"", "JBIG2Decode"},
     cs \in {null, "DeviceGray", "DeviceRGB", "Separation"},
     im \in BOOLEAN, mk \in {"none", "array", "stream"},
     k \in {<<>>, <<0, 0>>, <<0, 255, 0, 255, 0, 255>>}, sm \in BOOLEAN}

\* how many streams deep the SMask / Mask references of the inputs go
MaxNest == 2

RECURSIVE NestedMask(_, _)
\* a mask stream whose own dictionary names a further stream, k levels
\* deep, as SMask (odd levels) or Mask (even levels)
NestedMask(f, k) ==
  LET below == IF k = 0 THEN <<>> ELSE <<NestedMask(f, k - 1)>>
  IN [BaseStream EXCEPT !.Width = 1, !.Filter = f,
                        !.SMask = (k # 0 /\ k % 2 = 1),
                        !.Mask = IF k # 0 /\ k % 2 = 0 THEN "stream"
                                 ELSE "none",
                        !.sub = below]

RECURSIVE BackToParent(_, _)
\* an image whose SMask names the image itself as its own SMask.  A record
\* cannot contain itself, so the cycle is written out k turns deep: every
\* level is the same image dictionary.
BackToParent(f, k) ==
  [BaseStream EXCEPT !.Filter = f, !.codec = Header(2, 1, 1, 8),
                     !.SMask = (k # 0),
                     !.sub = IF k = 0 THEN <<>>
                             ELSE <<BackToParent(f, k - 1)>>]

\* images whose mask stream has an SMask / Mask of its own: another stream,
\* or the image again
NestStreams ==
  {[BaseStream EXCEPT !.Filter = f, !.codec = Header(2, 1, 1, 8),
                      !.SMask = sm,
                      !.Mask = IF sm THEN "none" ELSE "stream",
                      !.sub = <<NestedMask(g, k)>>] :
     f \in {"", "JBIG2Decode"}, g \in {"", "JBIG2Decode"},
     sm \in BOOLEAN, k \in 0..MaxNest}
  \cup {BackToParent(f, k) : f \in {"", "JBIG2Decode"}, k \in 1..(MaxNest + 1)}

RowCalls ==
  {[pStream |-> <<x>>, bHasMask |-> FALSE, bStdCS |-> FALSE,
    GroupFamily |-> "Unknown", bLoadMask |-> FALSE] :
     x \in MaskRowStreams \cup RgbRowStreams \cup KeyedRowStreams}

(***************************************************************************)
(* The state machine: one CPDF_DIB object and the calls made on it.        *)
(***************************************************************************)
NoRow == [kind |-> "none", buf |-> "", head |-> <<>>, fill |-> 0, from |-> ""]

NoHistory ==
  [startRet |-> "none",        \* what StartLoadDIBBase returned
   everFail |-> FALSE,         \* a load call has returned Fail
   failBefore |-> FALSE,       \* ... before the last load call was made
   codecAfterFail |-> FALSE,   \* a codec was called in a call made after that
   readAfterFail |-> FALSE,    \* the last accessor call was made after that
   undefined |-> FALSE,        \* a load call has dereferenced a null pointer
   iCreatedDecoder |-> "none", \* StartLoadDIBBase's locals
   iLoadedMask |-> "none",
   maskRet |-> "none",         \* what the mask answered in the last load call
   line |-> 0,                 \* the line GetScanline was last called with
   detached |-> "none"]        \* whether the last DetachMask handed out a mask

\* the calls this object and its mask have made into the JBIG2 codec
CodecCalls(self) ==
  self.nStartDecode + self.nContinueDecode
    + (IF self.m_pMask = <<>> THEN 0
       ELSE self.m_pMask[1].nStartDecode + self.m_pMask[1].nContinueDecode)

\* ContinueLoadDIBBase on this object dereferences a null pointer:
\* m_pStreamAcc when StartLoadDIBBase did not get to create it, or
\* m_pCachedBitmap when a JBIG2 decode is started again after kError
\* (a mask never does: it is dropped when it fails)
UndefinedContinue(self) ==
  /\ self.m_Status # "Continue"
  /\ \/ self.m_pStreamAcc = null
     \/ /\ self.m_pDict[1].Filter = "JBIG2Decode"
        /\ self.m_Status # "Fail"
        /\ self.m_pJbig2Context = null
        /\ self.m_pCachedBitmap = <<>>

(***************************************************************************)
(* CXFA_ContentLayoutItem.  The content layout items of a form node are    *)
(* chained through m_pPrev and m_pNext.  Items are numbered from 1 to      *)
(* MaxItems and nullptr is 0.  The methods take the links of all items     *)
(* and return them.                                                        *)
(***************************************************************************)
\* how many items there are
MaxItems == 4

nullptr == 0

\* the items as constructed: in no chain
NewItems == [x \in 1..MaxItems |-> [m_pPrev |-> nullptr, m_pNext |-> nullptr]]

RemoveSelf(its, self) ==
  LET s1 == IF its[self].m_pNext # nullptr
            THEN [its EXCEPT ![its[self].m_pNext].m_pPrev = its[self].m_pPrev]
            ELSE its
  IN  IF s1[self].m_pPrev # nullptr
      THEN [s1 EXCEPT ![s1[self].m_pPrev].m_pNext = s1[self].m_pNext]
      ELSE s1

\* InsertAfter without the last step, pItem->m_pNext->m_pPrev = pItem
InsertAfterOneWay(its, self, pItem) ==
  LET s1 == RemoveSelf(its, pItem)
      s2 == [s1 EXCEPT ![pItem].m_pNext = s1[self].m_pNext]
      s3 == [s2 EXCEPT ![pItem].m_pPrev = self]
  IN  [s3 EXCEPT ![self].m_pNext = pItem]

InsertAfter(its, self, pItem) ==
  LET s1 == RemoveSelf(its, pItem)
      s2 == [s1 EXCEPT ![pItem].m_pNext = s1[self].m_pNext]
      s3 == [s2 EXCEPT ![pItem].m_pPrev = self]
      s4 == [s3 EXCEPT ![self].m_pNext = pItem]
  IN  IF s4[pItem].m_pNext # nullptr
      THEN [s4 EXCEPT ![s4[pItem].m_pNext].m_pPrev = pItem]
      ELSE s4

\* what a loop over the links that never ends "returns"
NeverReturns == -1

RECURSIVE WalkPrev(_, _, _)
\* the loop of GetFirst and GetIndex: the item reached and the steps made.
\* A loop that made more steps than there are items is in a cycle.
WalkPrev(its, pCurNode, iIndex) ==
  IF its[pCurNode].m_pPrev = nullptr
  THEN [pCurNode |-> pCurNode, iIndex |-> iIndex]
  ELSE IF iIndex >= MaxItems
  THEN [pCurNode |-> nullptr, iIndex |-> NeverReturns]
  ELSE WalkPrev(its, its[pCurNode].m_pPrev, iIndex + 1)

GetFirst(its, self) == WalkPrev(its, self, 0).pCurNode

GetIndex(its, self) == WalkPrev(its, self, 0).iIndex

RECURSIVE WalkNext(_, _, _, _)
\* the loop of GetCount: iCount after `steps` steps along m_pNext
WalkNext(its, pCurNode, iCount, steps) ==
  IF its[pCurNode].m_pNext = nullptr THEN iCount
  ELSE IF steps >= MaxItems THEN NeverReturns
  ELSE WalkNext(its, its[pCurNode].m_pNext, iCount + 1, steps + 1)

GetCount(its, self) ==
  IF GetIndex(its, self) = NeverReturns THEN NeverReturns
  ELSE WalkNext(its, self, GetIndex(its, self) + 1, 0)

\* a trapped null dereference ended the process
Crashed == ret = "Crash" \/ scan.kind = "crash"

InitWith(calls) ==
  /\ call \in calls
  /\ dib = NewDIB
  /\ std = [cs \in ColorSpaces |-> FALSE]
  /\ op = "new"
  /\ ret = "none"
  /\ scan = NoRow
  /\ hist = NoHistory
  /\ items = NewItems
  /\ inserted = <<>>

Init == InitWith(Calls)

Start ==
  /\ op = "new"
  /\ LET r == StartLoadDIBBase(dib, call.pStream, call.bHasMask, call.bStdCS,
                               call.GroupFamily, call.bLoadMask, std)
     IN  /\ dib' = r.self
         /\ std' = r.flags
         /\ ret' = r.ret
         /\ hist' = [hist EXCEPT !.startRet = r.ret,
                                 !.everFail = r.ret = "Fail",
                                 !.iCreatedDecoder = r.iCreatedDecoder,
                                 !.iLoadedMask = r.iLoadedMask,
                                 !.maskRet = r.maskRet]
  /\ op' = "StartLoadDIBBase"
  /\ UNCHANGED <<items, inserted, call, scan>>

Continue ==
  /\ op # "new"
  /\ ~Crashed
  /\ CodecCalls(dib) < MaxContinue
  /\ \E st \in CodecStatus, stMask \in CodecStatus, ub \in UBOutcome :
       LET r == ContinueLoadDIBBase(dib, std, st, stMask, ub)
       IN  /\ dib' = r.self
           /\ std' = r.flags
           /\ ret' = r.ret
           /\ hist' = [hist EXCEPT
                         !.failBefore = hist.everFail,
                         !.undefined = @ \/ UndefinedContinue(dib),
                         !.everFail = @ \/ r.ret = "Fail",
                         !.codecAfterFail =
                            @ \/ (hist.everFail
                                    /\ CodecCalls(r.self) # CodecCalls(dib)),
                         !.maskRet = r.maskRet]
  /\ op' = "ContinueLoadDIBBase"
  /\ UNCHANGED <<items, inserted, call, scan>>

Scanline ==
  /\ op # "new"
  /\ ~Crashed
  /\ \E line \in 0..MaxLine, ub \in {"trap", ""} :
       LET r == GetScanline(dib, line, ub)
       IN  /\ dib' = r.self
           /\ scan' = r.row
           /\ hist' = [hist EXCEPT !.line = line,
                                   !.readAfterFail = hist.everFail]
  /\ UNCHANGED <<items, inserted, call, std, op, ret>>

Buffer ==
  /\ op # "new"
  /\ ~Crashed
  /\ scan' = IF GetBuffer(dib)
             THEN [NoRow EXCEPT !.kind = "buffer", !.buf = "m_pCachedBitmap"]
             ELSE [NoRow EXCEPT !.kind = "nobuffer"]
  /\ hist' = [hist EXCEPT !.readAfterFail = hist.everFail]
  /\ UNCHANGED <<items, inserted, call, dib, std, op, ret>>

\* the renderer takes the mask out once the load has finished
Detach ==
  /\ ret = "Success"
  /\ LET r == DetachMask(dib)
     IN  /\ dib' = r.self
         /\ hist' = [hist EXCEPT !.detached =
                       IF r.mask = <<>> THEN "no" ELSE "yes"]
  /\ UNCHANGED <<items, inserted, call, std, op, ret, scan>>

Next == Start \/ Continue \/ Scanline \/ Buffer \/ Detach

Spec == Init /\ [][Next]_vars

\* what a JBIG2 codec may answer: kDecodeToBeContinued only finitely often,
\* here while fewer than MaxContinue - 1 codec calls have been made
Answers ==
  IF CodecCalls(dib) + 1 >= MaxContinue THEN {"kError", "kDone"}
  ELSE CodecStatus

\* the caller's loop: ContinueLoadDIBBase is called again while the last
\* load call returned Continue
ContinueWhileContinue ==
  /\ op # "new"
  /\ ret = "Continue"
  /\ \E st \in Answers, stMask \in Answers, ub \in UBOutcome :
       LET r == ContinueLoadDIBBase(dib, std, st, stMask, ub)
       IN  /\ dib' = r.self
           /\ std' = r.flags
           /\ ret' = r.ret
           /\ hist' = [hist EXCEPT
                         !.failBefore = hist.everFail,
                         !.undefined = @ \/ UndefinedContinue(dib),
                         !.everFail = @ \/ r.ret = "Fail",
                         !.codecAfterFail =
                            @ \/ (hist.everFail
                                    /\ CodecCalls(r.self) # CodecCalls(dib)),
                         !.maskRet = r.maskRet]
  /\ op' = "ContinueLoadDIBBase"
  /\ UNCHANGED <<items, inserted, call, scan>>

LoopNext == Start \/ ContinueWhileContinue

\* the load driven to its end: the caller goes on calling
LoopSpec == Init /\ [][LoopNext]_vars /\ WF_vars(ContinueWhileContinue)

\* the same object and calls, on the colour-keyed images
ScanInit == InitWith(ScanCalls)

ScanSpec == ScanInit /\ [][Next]_vars

\* the same object and calls, on the image masks and DeviceRGB images
RowInit == InitWith(RowCalls)

RowSpec == RowInit /\ [][Next]_vars

\* the same object and calls, on the DCT images
DctSpec ==
  InitWith({[pStream |-> <<x>>, bHasMask |-> FALSE, bStdCS |-> FALSE,
             GroupFamily |-> "Unknown", bLoadMask |-> FALSE] : x \in DctStreams})
    /\ [][Next]_vars

\* the same object and calls, on the declared bits per component
BpcSpec ==
  InitWith({[pStream |-> <<x>>, bHasMask |-> FALSE, bStdCS |-> FALSE,
             GroupFamily |-> "Unknown", bLoadMask |-> FALSE] : x \in BpcStreams})
    /\ [][Next]_vars

\* the same object and calls, on the images with nested masks
NestSpec ==
  InitWith({CallOn(x, stdcs) : x \in NestStreams, stdcs \in BOOLEAN})
    /\ [][Next]_vars

\* the same object and calls, on the images with SMask and Mask entries
KeySpec == InitWith({CallOn(x, FALSE) : x \in KeyStreams}) /\ [][Next]_vars

\* this->InsertAfter(pItem) on two different items
InsertAfterCall ==
  \E self \in 1..MaxItems, pItem \in 1..MaxItems :
     /\ self # pItem
     /\ items' = InsertAfter(items, self, pItem)
     /\ inserted' = <<[self |-> self, pItem |-> pItem,
                       m_pPrev |-> items[pItem].m_pPrev,
                       m_pNext |-> items[pItem].m_pNext]>>
     /\ UNCHANGED <<call, dib, std, op, ret, scan, hist>>

LayoutNext == InsertAfterCall

\* the content layout items under any sequence of InsertAfter calls
LayoutSpec == InitWith({CallOn(BaseStream, FALSE)}) /\ [][LayoutNext]_vars

\* the same object and calls, on the JPX images
JpxInit == InitWith(JpxCalls)

JpxSpec == JpxInit /\ [][Next]_vars

(***************************************************************************)
(* Properties of the load driver.                                          *)
(***************************************************************************)
\* C1: once StartLoadDIBBase or ContinueLoadDIBBase has returned Fail, every
\* later ContinueLoadDIBBase returns Fail as well and calls no codec (stated
\* for the calls whose behaviour is defined)
C1_FailIsAbsorbing ==
  (op = "ContinueLoadDIBBase" /\ hist.failBefore /\ ~hist.undefined)
    => (ret = "Fail" /\ ~hist.codecAfterFail)

\* C2: when the mask's own StartLoadDIBBase or ContinueLoadDIBBase returns
\* Fail, the parent's call does not return Fail, and the parent holds no
\* mask afterwards
C2_MaskFailureNeverFailsParent ==
  hist.maskRet = "Fail" => (ret # "Fail" /\ dib.m_pMask = <<>>)

\* Width or Height of the dictionary is outside (0, 0x1FFFF]
BadDimensions ==
  /\ call.pStream # <<>>
  /\ \/ call.pStream[1].Width <= 0 \/ call.pStream[1].Width > 131071
     \/ call.pStream[1].Height <= 0 \/ call.pStream[1].Height > 131071

\* no stream data is loaded and no codec or decoder is created or called
NothingLoaded ==
  /\ dib.m_pStreamAcc = null
  /\ ~dib.codecTouched
  /\ dib.m_pDecoder = <<>>
  /\ dib.m_pCachedBitmap = <<>>
  /\ dib.m_pJbig2Context = null

\* C3: with Width or Height outside (0, 0x1FFFF], StartLoadDIBBase returns
\* Fail, and has loaded no stream data and created or called no codec
C3_BadDimensionsFailEarly ==
  (op = "StartLoadDIBBase" /\ BadDimensions)
    => (ret = "Fail" /\ NothingLoaded)

\* C3 happens: a JPX stream its codec accepts, with Width = 0x20000
C3_Witness ==
  /\ op = "StartLoadDIBBase"
  /\ BadDimensions
  /\ call.pStream[1].Width = 131072
  /\ call.pStream[1].Filter = "JPXDecode"
  /\ call.pStream[1].codec.ok
  /\ ret = "Fail"

\* the dictionary declares valid dimensions, an allowed BitsPerComponent
\* and a colour space, on an unfiltered stream that is no image mask
ValidParameters ==
  /\ call.pStream # <<>>
  /\ ~BadDimensions
  /\ call.pStream[1].BitsPerComponent \in {1, 2, 4, 8, 16}
  /\ call.pStream[1].ColorSpace \in ColorSpaces
  /\ call.pStream[1].Filter = ""
  /\ ~call.pStream[1].ImageMask

\* bits of one row: width * bpc * n_components
RowBits ==
  call.pStream[1].Width * call.pStream[1].BitsPerComponent
    * CountComponents(call.pStream[1].ColorSpace)

\* no row buffer is allocated
NothingAllocated == dib.m_pLineBuf = <<>> /\ dib.m_pMaskedLine = <<>>

C5_ContinueIffDecoderOrMaskContinues ==
  (op = "StartLoadDIBBase" /\ ret # "Fail")
    => /\ ret \in {"Success", "Continue"}
       /\ ret = "Continue" <=> (hist.iCreatedDecoder = "Continue"
                                  \/ hist.iLoadedMask = "Continue")
       /\ hist.iCreatedDecoder = "Continue"
            => call.pStream[1].Filter = "JBIG2Decode"

\* C5 happens: an unfiltered image whose mask loads progressively
C5_Witness ==
  /\ op = "StartLoadDIBBase"
  /\ ret = "Continue"
  /\ hist.iCreatedDecoder = "Success"
  /\ hist.iLoadedMask = "Continue"

C7_EffectiveBpcAllowed ==
  /\ hist.startRet \in {"Success", "Continue"} => dib.m_bpc \in {1, 2, 4, 8, 16}
  /\ dib.m_bpc = 0 => scan.kind \in {"none", "null", "buffer", "nobuffer"}

\* C7 happens: a JPX image declared with 3 bits per component has loaded
C7_Witness ==
  /\ hist.startRet = "Success"
  /\ call.pStream[1].Filter = "JPXDecode"
  /\ call.pStream[1].BitsPerComponent = 3
  /\ dib.m_bpc = 8

\* C7 happens too: GetScanline on an object whose m_bpc is 0
C7_NullScanline == dib.m_bpc = 0 /\ scan.kind = "null"

\* C8: after a load call has returned Fail, GetBuffer returns null and
\* GetScanline returns no row
C8_AccessorsNullAfterFail ==
  hist.readAfterFail => scan.kind \in {"null", "nobuffer", "crash"}

(***************************************************************************)
(* Properties of colour-keyed scanlines.                                   *)
(***************************************************************************)
\* GetScanline has built a row of a colour-keyed image from the stream's
\* row hist.line of the image
KeyedRow ==
  /\ scan.kind = "row"
  /\ scan.from = "raw"
  /\ dib.m_bColorKey
  /\ dib.m_Format = "kArgb"
  /\ hist.line < dib.m_Height

\* the row of the stream the last GetScanline read
KeyedSource ==
  SubSeq(call.pStream[1].data,
         hist.line * CalculatePitch8(dib.m_bpc, dib.m_nComponents, dib.m_Width)
           + 1,
         Len(call.pStream[1].data))

\* every component code of pixel col lies in the component's interval of
\* the Mask array
AllInKeyRange(col) ==
  \A j \in 1..dib.m_nComponents :
     /\ SampleAt(dib, KeyedSource, col, j - 1)
          >= call.pStream[1].MaskArray[2 * j - 1]
     /\ SampleAt(dib, KeyedSource, col, j - 1)
          <= call.pStream[1].MaskArray[2 * j]

\* the alpha byte of pixel col of the row handed out
AlphaOf(col) ==
  IF col * 4 + 4 <= Len(scan.head) THEN scan.head[col * 4 + 4] ELSE scan.fill

\* C9 as stated: in a row of a colour-keyed image, a pixel's alpha byte is
\* 0xFF exactly when every component code lies in its key interval
C9_OpaqueIffAllInKeyRange ==
  KeyedRow =>
    \A col \in 0..(dib.m_Width - 1) : AlphaOf(col) = 255 <=> AllInKeyRange(col)

\* C9 as the code has it: in a row of a colour-keyed image of three 8-bit
\* components, a pixel's alpha byte is 0 when every component code lies in
\* its key interval and 0xFF when at least one lies outside
C9_TransparentIffAllInKeyRange ==
  (KeyedRow /\ dib.m_nComponents = 3 /\ dib.m_bpc = 8) =>
    \A col \in 0..(dib.m_Width - 1) :
       AlphaOf(col) = (IF AllInKeyRange(col) THEN 0 ELSE 255)

\* C9 happens: the 1x1 DeviceRGB image with Mask [0 0 0 0 0 0] and the
\* bytes 0, 0, 0 gives the pixel (0, 0, 0, 0)
C9_Witness ==
  /\ KeyedRow
  /\ call.pStream[1].ColorSpace = "DeviceRGB"
  /\ call.pStream[1].BitsPerComponent = 8
  /\ call.pStream[1].Width = 1
  /\ call.pStream[1].MaskArray = <<0, 0, 0, 0, 0, 0>>
  /\ SubSeq(call.pStream[1].data, 1, 3) = <<0, 0, 0>>
  /\ SubSeq(scan.head, 1, 4) = <<0, 0, 0, 0>>

\* C10: in a row of a colour-keyed image of any depth and component count,
\* a pixel whose every component code lies in its key interval has alpha 0,
\* and a pixel with a component outside its interval has alpha 0xFF
C10_KeyedPixelsTransparent ==
  KeyedRow =>
    \A col \in 0..(dib.m_Width - 1) :
       /\ AllInKeyRange(col) => AlphaOf(col) = 0
       /\ ~AllInKeyRange(col) => AlphaOf(col) = 255

(***************************************************************************)
(* Properties of the rows of image masks and DeviceRGB images.             *)
(***************************************************************************)
\* byte k (from 1) of the row handed out
RowByte(k) == IF k <= Len(scan.head) THEN scan.head[k] ELSE scan.fill

\* byte k (from 1) of row hist.line of the stream, rows being `pitch` bytes
SourceByte(pitch, k) == call.pStream[1].data[hist.line * pitch + k]

\* bytes of one row of a 1-bit image: ceil(Width / 8)
MaskSourcePitch == (call.pStream[1].Width + 7) \div 8

\* GetScanline has built a row of an image mask from the stream's row
ImageMaskRow ==
  /\ hist.startRet = "Success"
  /\ call.pStream[1].ImageMask
  /\ scan.kind = "row"
  /\ scan.from = "raw"

\* the dictionary has no Decode array, or one that starts with 0
DefaultMaskDecode ==
  call.pStream[1].Decode = <<>> \/ call.pStream[1].Decode[1][1] = 0

\* C11: the row of an image mask with default decode is the complement of
\* the source row, byte by byte over the source pitch; with a non-default
\* decode (and no colour key) it is the source row unchanged
C11_ImageMaskRowComplemented ==
  ImageMaskRow =>
    \A k \in 1..MaskSourcePitch :
       RowByte(k) = (IF DefaultMaskDecode
                     THEN 255 - SourceByte(MaskSourcePitch, k)
                     ELSE SourceByte(MaskSourcePitch, k))

\* C11 happens: the source byte 0b10110001 came out as 0b01001110
C11_Witness ==
  /\ ImageMaskRow
  /\ DefaultMaskDecode
  /\ hist.line = 0
  /\ SourceByte(MaskSourcePitch, 1) = 177
  /\ RowByte(1) = 78

\* GetScanline has built a row of an unfiltered DeviceRGB image of 8 bits
\* per component, default decode and no colour key, from the stream's row
DefaultRgbRow ==
  /\ hist.startRet = "Success"
  /\ call.pStream[1].ColorSpace = "DeviceRGB"
  /\ call.pStream[1].BitsPerComponent = 8
  /\ call.pStream[1].Filter = ""
  /\ call.pStream[1].Mask = "none"
  /\ ~call.pStream[1].ImageMask
  /\ \/ call.pStream[1].Decode = <<>>
     \/ call.pStream[1].Decode[1] = <<0, 1, 0, 1, 0, 1>>
  /\ scan.kind = "row"
  /\ scan.from = "raw"

\* the bytes of 3-byte pixels with the first and third byte of every pixel
\* exchanged
SwapRB(row) == [i \in 1..Len(row) |-> row[i + 2 - 2 * ((i - 1) % 3)]]

\* the pixels of the row handed out, and of the stream's row it came from
RgbOutput == [k \in 1..(3 * call.pStream[1].Width) |-> RowByte(k)]

RgbInput ==
  [k \in 1..(3 * call.pStream[1].Width) |->
     SourceByte(3 * call.pStream[1].Width, k)]

\* C12: the row of a default-decoded 8-bpc DeviceRGB image is the input
\* row with R and B of every pixel exchanged, and exchanging them again
\* gives the input row back
C12_RgbRowSwapsRedAndBlue ==
  DefaultRgbRow =>
    /\ RgbOutput = SwapRB(RgbInput)
    /\ SwapRB(RgbOutput) = RgbInput

\* C12 happens: the input 10, 20, 30, 40, 50, 60 came out as
\* 30, 20, 10, 60, 50, 40
C12_Witness ==
  /\ DefaultRgbRow
  /\ hist.line = 0
  /\ RgbInput = <<10, 20, 30, 40, 50, 60>>
  /\ RgbOutput = <<30, 20, 10, 60, 50, 40>>

\* the rows of the image that GetScanline can be asked for
ImageLines == {l \in 0..MaxLine : l < dib.m_Height}

\* C13: after StartLoadDIBBase returned Success, the row GetScanline has
\* just handed out for a line is the row it hands out for that line again
\* after any other row has been read in between
C13_RereadYieldsSameRow ==
  (hist.startRet = "Success" /\ ret = "Success" /\ scan.kind = "row"
     /\ hist.line \in ImageLines)
    => \A j \in ImageLines :
         GetScanline(GetScanline(dib, j, "").self, hist.line, "").row = scan

(***************************************************************************)
(* Properties of the palette.                                              *)
(***************************************************************************)
\* a palette of object d has bpc * n_components <= 8 and the entries
\* 0 .. 2^(bpc * n_components) - 1; d has none without a colour space, with
\* a Pattern colour space, with bpc 0 and with bpc * n_components > 8
PaletteFits(d) ==
  /\ HasPalette(d) =>
       /\ d.m_bpc * d.m_nComponents <= 8
       /\ DOMAIN d.m_palette = 1..(2 ^ (d.m_bpc * d.m_nComponents))
  /\ (d.m_pColorSpace = null \/ d.m_Family = "Pattern" \/ d.m_bpc = 0
        \/ d.m_bpc * d.m_nComponents > 8)
       => ~HasPalette(d)

\* C14: a palette LoadPalette has written has bpc * n_components <= 8 and
\* exactly the entries 0 .. 2^(bpc * n_components) - 1, and none is written
\* without a colour space, for a Pattern colour space, for bpc 0 and for
\* bpc * n_components > 8; for the object and for its mask
C14_PaletteCardinality ==
  /\ PaletteFits(dib)
  /\ dib.m_pMask # <<>> => PaletteFits(dib.m_pMask[1])

\* C14 happens: a DeviceRGB image of 1 bit per component has its 8 entries
C14_Witness ==
  /\ HasPalette(dib)
  /\ dib.m_bpc = 1
  /\ dib.m_nComponents = 3
  /\ Len(dib.m_palette) = 8

\* C14 happens too: a Pattern image has loaded without a palette
C14_PatternWitness ==
  /\ hist.startRet = "Success"
  /\ dib.m_Family = "Pattern"
  /\ ~HasPalette(dib)

(***************************************************************************)
(* C15: DetachMask moves the mask out of the object.  The first DetachMask *)
(* after a mask load that succeeded returns the mask, the object holds no  *)
(* mask after any DetachMask, a DetachMask after an earlier one returns    *)
(* none, and DetachMask changes nothing else of the object.                *)
(***************************************************************************)
DetachStep ==
  /\ Detach
  /\ (hist.maskRet = "Success" /\ hist.detached = "none")
        => hist'.detached = "yes"
  /\ dib'.m_pMask = <<>>
  /\ hist.detached # "none" => hist'.detached = "no"
  /\ dib' = [dib EXCEPT !.m_pMask = <<>>]
  /\ std' = std

C15_DetachMaskTransfersOwnership == [][Detach => DetachStep]_vars

\* a mask that loaded has been handed out and the object holds none
C15_Witness ==
  hist.maskRet = "Success" /\ hist.detached = "yes" /\ dib.m_pMask = <<>>

(***************************************************************************)
(* C16: what may change of the image's parameters once LoadColorInfo has   *)
(* built them.                                                             *)
(***************************************************************************)
\* the object StartLoadDIBBase hands to LoadColorInfo
ParamsInput ==
  [NewDIB EXCEPT !.m_pDict = call.pStream, !.m_bStdCS = call.bStdCS,
                 !.m_bHasMask = call.bHasMask,
                 !.m_Width = call.pStream[1].Width,
                 !.m_Height = call.pStream[1].Height,
                 !.m_GroupFamily = call.GroupFamily,
                 !.m_bLoadMask = call.bLoadMask]

\* the parameters as LoadColorInfo left them
Constructed == LoadColorInfo(ParamsInput).self

ConstructionCompleted ==
  /\ op # "new"
  /\ call.pStream # <<>>
  /\ IsValidDimension(call.pStream[1].Width)
  /\ IsValidDimension(call.pStream[1].Height)
  /\ LoadColorInfo(ParamsInput).ok

HeaderOf == call.pStream[1].codec

FilterOf == call.pStream[1].Filter

\* C16 as stated: after the parameters are built, width, height, colour
\* space and family never change, and the bits per component and the number
\* of components change only through the DCT header override.
C16_OnlyDctChangesDepthAndComponents ==
  ConstructionCompleted =>
    /\ dib.m_Width = Constructed.m_Width
    /\ dib.m_Height = Constructed.m_Height
    /\ dib.m_pColorSpace = Constructed.m_pColorSpace
    /\ dib.m_Family = Constructed.m_Family
    /\ (dib.m_bpc # Constructed.m_bpc
          \/ dib.m_nComponents # Constructed.m_nComponents)
         => FilterOf = "DCTDecode"

\* C16, amended: after the parameters are built the family never changes;
\* width and height change only to the ones of the JPEG header in
\* CreateDCTDecoder; the colour space changes only in LoadJpxBitmap, where
\* it is dropped or, when there was none, replaced by the stock DeviceCMYK;
\* the number of components changes only to the one of the JPEG header or,
\* for a JPX image without colour space, of the JPX image; the bits per
\* component change only to the ones of the JPEG header or to 8 for a JPX
\* image; the decode and colour-key arrays change only with the number of
\* components in CreateDCTDecoder.
C16_ParamsChangeOnlyFromCodecHeader ==
  ConstructionCompleted =>
    /\ dib.m_Family = Constructed.m_Family
    /\ (dib.m_Width # Constructed.m_Width
          \/ dib.m_Height # Constructed.m_Height)
         => /\ FilterOf = "DCTDecode"
            /\ dib.m_Width = HeaderOf.width
            /\ dib.m_Height = HeaderOf.height
    /\ dib.m_pColorSpace # Constructed.m_pColorSpace
         => /\ FilterOf = "JPXDecode"
            /\ dib.m_pColorSpace =
                 IF Constructed.m_pColorSpace = null THEN "DeviceCMYK"
                 ELSE null
    /\ dib.m_nComponents # Constructed.m_nComponents
         => /\ dib.m_nComponents = HeaderOf.components
            /\ \/ FilterOf = "DCTDecode"
               \/ FilterOf = "JPXDecode" /\ Constructed.m_pColorSpace = null
    /\ dib.m_bpc # Constructed.m_bpc
         => \/ FilterOf = "DCTDecode" /\ dib.m_bpc = HeaderOf.bits
            \/ FilterOf = "JPXDecode" /\ dib.m_bpc = 8
    /\ (dib.m_CompData # Constructed.m_CompData
          \/ dib.m_bDefaultDecode # Constructed.m_bDefaultDecode
          \/ dib.m_bColorKey # Constructed.m_bColorKey)
         => /\ FilterOf = "DCTDecode"
            /\ dib.m_nComponents # Constructed.m_nComponents

\* a DCT image loaded with the header's size and number of components
C16_Witness ==
  /\ ConstructionCompleted
  /\ ret = "Success"
  /\ FilterOf = "DCTDecode"
  /\ dib.m_Width # Constructed.m_Width
  /\ dib.m_nComponents # Constructed.m_nComponents

\* a JPX image loaded with its colour space dropped
C16_JpxWitness ==
  /\ ConstructionCompleted
  /\ ret = "Success"
  /\ FilterOf = "JPXDecode"
  /\ dib.m_pColorSpace # Constructed.m_pColorSpace
  /\ dib.m_bpc # Constructed.m_bpc

(***************************************************************************)
(* C17: GetScanline(i) on an unfiltered image without cached bitmap and    *)
(* without decoder, whose stream holds fewer than (i + 1) * src_pitch      *)
(* bytes, returns a row of m_Pitch bytes 0xFF, in m_pMaskedLine when the   *)
(* image has a colour key and in m_pLineBuf otherwise, and changes nothing *)
(* else of the object.                                                     *)
(***************************************************************************)
SrcPitch == CalculatePitch8(dib.m_bpc, dib.m_nComponents, dib.m_Width)

\* GetScanline(i) finds no source row in the raw stream
ShortRead(i) ==
  /\ call.pStream # <<>>
  /\ FilterOf = ""
  /\ dib.m_pCachedBitmap = <<>>
  /\ dib.m_pDecoder = <<>>
  /\ dib.m_pStreamAcc # null
  /\ SrcPitch # NoValue
  /\ Len(call.pStream[1].data) < (i + 1) * SrcPitch

FilledBuffer == IF dib.m_bColorKey THEN "m_pMaskedLine" ELSE "m_pLineBuf"

ShortReadStep ==
  /\ scan'.kind = "row"
  /\ scan'.buf = FilledBuffer
  /\ scan'.head = <<>>
  /\ scan'.fill = 255
  /\ dib'[FilledBuffer] = <<[head |-> <<>>, fill |-> 255]>>
  /\ \A f \in DOMAIN dib \ {FilledBuffer} : dib'[f] = dib[f]
  /\ std' = std

C17_ShortReadYieldsFilledRow ==
  [][(Scanline /\ ShortRead(hist'.line)) => ShortReadStep]_vars

\* a short read has filled the masked line of a colour-keyed image
C17_Witness ==
  /\ scan.kind = "row"
  /\ scan.from = "none"
  /\ dib.m_bColorKey
  /\ scan.buf = "m_pMaskedLine"
  /\ scan.fill = 255

\* a short read has filled the line buffer of an image without colour key
C17_LineBufWitness ==
  /\ scan.kind = "row"
  /\ scan.from = "none"
  /\ ~dib.m_bColorKey
  /\ scan.buf = "m_pLineBuf"
  /\ scan.fill = 255

(***************************************************************************)
(* C18: over the ContinueLoadDIBBase calls made on one object, the JBIG2   *)
(* codec's StartDecode is called in the first of them only, so at most     *)
(* once, and every later call into the codec is a ContinueDecode.          *)
(***************************************************************************)
\* the object and, if it holds one, its mask
Decoders == {dib} \cup {dib.m_pMask[i] : i \in 1..Len(dib.m_pMask)}

C18_StartDecodeOnlyFirst ==
  \A d \in Decoders :
    /\ d.nStartDecode <= 1
    /\ d.nContinueDecode > 0 => d.nStartDecode = 1

(***************************************************************************)
(* C19: what ContinueLoadDIBBase makes of the JBIG2 codec's answer.        *)
(***************************************************************************)
\* ContinueLoadDIBBase may be called
ContinueEnabled == op # "new" /\ ~Crashed /\ CodecCalls(dib) < MaxContinue

\* the call with the codec answering st (stMask to the mask)
Answer(st, stMask, ub) == ContinueLoadDIBBase(dib, std, st, stMask, ub)

\* the call gets to ask this object's codec
CodecAnswers(st, stMask, ub) ==
  /\ ContinueEnabled
  /\ Answer(st, stMask, ub).self.nStartDecode
       + Answer(st, stMask, ub).self.nContinueDecode
       # dib.nStartDecode + dib.nContinueDecode

\* kError: Fail, with context, bitmap and globals released
ErrorMapped(r) ==
  /\ r.ret = "Fail"
  /\ r.self.m_pJbig2Context = null
  /\ r.self.m_pCachedBitmap = <<>>
  /\ r.self.m_pGlobalAcc = null

\* kDecodeToBeContinued: Continue, with the context, the bitmap and the
\* globals (loaded in the first call if the stream names any) kept
ContinuedMapped(r) ==
  /\ r.ret = "Continue"
  /\ r.self.m_pJbig2Context # null
  /\ r.self.m_pCachedBitmap = dib.m_pCachedBitmap
  /\ r.self.m_pGlobalAcc =
       IF dib.m_pJbig2Context = null /\ call.pStream[1].JBIG2Globals
       THEN "loaded" ELSE dib.m_pGlobalAcc

\* C19 as stated: kError gives Fail and releases the three,
\* kDecodeToBeContinued gives Continue and keeps them, kDone gives Success.
C19_DoneGivesSuccess ==
  \A st \in CodecStatus, stMask \in CodecStatus, ub \in UBOutcome :
    CodecAnswers(st, stMask, ub) =>
      CASE st = "kError" -> ErrorMapped(Answer(st, stMask, ub))
        [] st = "kDecodeToBeContinued" ->
             ContinuedMapped(Answer(st, stMask, ub))
        [] OTHER -> Answer(st, stMask, ub).ret = "Success"

\* C19, amended: kError gives Fail and releases the three,
\* kDecodeToBeContinued gives Continue and keeps them, kDone gives Continue
\* when the image has a mask whose own load answers Continue, and Success
\* otherwise.
C19_DoneGivesSuccessUnlessMaskContinues ==
  \A st \in CodecStatus, stMask \in CodecStatus, ub \in UBOutcome :
    CodecAnswers(st, stMask, ub) =>
      CASE st = "kError" -> ErrorMapped(Answer(st, stMask, ub))
        [] st = "kDecodeToBeContinued" ->
             ContinuedMapped(Answer(st, stMask, ub))
        [] OTHER ->
             Answer(st, stMask, ub).ret =
               IF dib.m_bHasMask
                    /\ Answer(st, stMask, ub).maskRet = "Continue"
               THEN "Continue" ELSE "Success"

\* the codec's first answer was kError: Fail, and the three are gone
C19_Witness ==
  /\ op = "ContinueLoadDIBBase"
  /\ call.pStream # <<>>
  /\ FilterOf = "JBIG2Decode"
  /\ dib.nStartDecode = 1
  /\ dib.nContinueDecode = 0
  /\ ret = "Fail"
  /\ dib.m_pJbig2Context = null
  /\ dib.m_pCachedBitmap = <<>>
  /\ dib.m_pGlobalAcc = null
  /\ call.pStream[1].JBIG2Globals

\* the codec answered kDone while the mask's load is still to be continued
C19_MaskWitness ==
  /\ op = "ContinueLoadDIBBase"
  /\ call.pStream # <<>>
  /\ FilterOf = "JBIG2Decode"
  /\ dib.nStartDecode = 1
  /\ ret = "Continue"
  /\ dib.m_Status = "Continue"

(***************************************************************************)
(* C20: the JPX negotiation.                                               *)
(***************************************************************************)
\* the table: the action for a PDF colour space (null for none), the JPX
\* image's component count and whether its colour space is sRGB
Negotiated(cs, n, srgb) ==
  IF cs = null
  THEN IF n = 3 THEN "kUseRgb" ELSE IF n = 4 THEN "kUseCmyk" ELSE "kDoNothing"
  ELSE IF n = CountComponents(cs)
  THEN IF cs = "DeviceRGB" THEN "kUseRgb" ELSE "kDoNothing"
  ELSE IF CountComponents(cs) = 3 /\ n = 4 /\ srgb
  THEN "kConvertArgbToRgb"
  ELSE "kFail"

\* StartLoadDIBBase got to LoadJpxBitmap, and the JPX decoder opened the
\* stream
JpxOpened ==
  /\ ConstructionCompleted
  /\ FilterOf = "JPXDecode"
  /\ dib.codecTouched
  /\ HeaderOf.ok

JpxAction == GetJpxDecodeAction(HeaderOf, Constructed.m_pColorSpace)

JpxTooSmall ==
  HeaderOf.width < Constructed.m_Width \/ HeaderOf.height < Constructed.m_Height

\* C20: GetJpxDecodeAction gives the table's action for the image's colour
\* space and the JPX image's component count and colour space, and
\* LoadJpxBitmap hands out no bitmap, which fails the load, when the action
\* is kFail or the JPX image is narrower or lower than declared; otherwise
\* the action shows in the colour space the object is left with.
C20_JpxNegotiation ==
  JpxOpened =>
    /\ JpxAction
         = Negotiated(Constructed.m_pColorSpace, HeaderOf.components,
                      HeaderOf.srgb)
    /\ (JpxAction = "kFail" \/ JpxTooSmall)
         => /\ hist.startRet = "Fail"
            /\ dib.m_pCachedBitmap = <<>>
            /\ dib.m_pColorSpace = Constructed.m_pColorSpace
    /\ ~(JpxAction = "kFail" \/ JpxTooSmall)
         => dib.m_pColorSpace =
              CASE JpxAction \in {"kUseRgb", "kConvertArgbToRgb"} -> null
                [] JpxAction = "kUseCmyk" -> "DeviceCMYK"
                [] OTHER -> Constructed.m_pColorSpace

\* a CalRGB image over a 4-component sRGB JPX image has loaded
C20_Witness ==
  /\ JpxOpened
  /\ JpxAction = "kConvertArgbToRgb"
  /\ hist.startRet = "Success"
  /\ dib.m_pColorSpace = null

\* a JPX image lower than declared has failed the load
C20_SmallWitness ==
  /\ JpxOpened
  /\ JpxAction # "kFail"
  /\ JpxTooSmall
  /\ hist.startRet = "Fail"

\* a CalRGB image over a 3-component JPX image keeps its colour space
C20_DoNothingWitness ==
  /\ JpxOpened
  /\ Constructed.m_pColorSpace = "CalRGB"
  /\ JpxAction = "kDoNothing"
  /\ hist.startRet = "Success"
  /\ dib.m_pColorSpace = "CalRGB"

(***************************************************************************)
(* C21: CreateDCTDecoder's fallback to the JPEG header.                    *)
(***************************************************************************)
\* the first JpegModule::CreateDecoder failed and LoadInfo read a header
DctFallback ==
  /\ ConstructionCompleted
  /\ FilterOf = "DCTDecode"
  /\ dib.codecTouched
  /\ ~HeaderOf.ok
  /\ HeaderOf.hasInfo

HeaderValid ==
  HeaderOf.components \in {1, 3, 4} /\ HeaderOf.bits = 8

\* the header's component count differs from the one LoadColorInfo set
CountDiffers == HeaderOf.components # Constructed.m_nComponents

DeclaredCount == CountComponents(Constructed.m_pColorSpace)

\* the constraint of the device families and of Lab
DeviceOrLabConstraint ==
  CASE Constructed.m_Family \in {"DeviceGray", "DeviceRGB", "DeviceCMYK"} ->
         HeaderOf.components >= ComponentsForFamily(Constructed.m_Family)
    [] Constructed.m_Family = "Lab" -> HeaderOf.components = 3
    [] OTHER -> TRUE

\* C21 as stated: an invalid header fails; with a differing count the load
\* fails unless the device families have a header count of at least
\* ComponentsForFamily, Lab one of exactly 3, and ICCBased valid counts
\* with declared <= header.
C21_IccDeclaredAtMostHeader ==
  DctFallback =>
    /\ ~HeaderValid => hist.startRet = "Fail"
    /\ (HeaderValid /\ CountDiffers /\ ~DeviceOrLabConstraint)
         => hist.startRet = "Fail"
    /\ (HeaderValid /\ CountDiffers /\ Constructed.m_Family = "ICCBased"
          /\ ~(/\ IsValidIccComponents(DeclaredCount)
               /\ IsValidIccComponents(HeaderOf.components)
               /\ DeclaredCount <= HeaderOf.components))
         => hist.startRet = "Fail"

\* C21, amended: an invalid header fails; with a differing count the load
\* fails unless the device families have a header count of at least
\* ComponentsForFamily, Lab one of exactly 3, and ICCBased valid counts
\* with header <= declared.
C21_IccHeaderAtMostDeclared ==
  DctFallback =>
    /\ ~HeaderValid => hist.startRet = "Fail"
    /\ (HeaderValid /\ CountDiffers /\ ~DeviceOrLabConstraint)
         => hist.startRet = "Fail"
    /\ (HeaderValid /\ CountDiffers /\ Constructed.m_Family = "ICCBased"
          /\ ~(/\ IsValidIccComponents(DeclaredCount)
               /\ IsValidIccComponents(HeaderOf.components)
               /\ HeaderOf.components <= DeclaredCount))
         => hist.startRet = "Fail"

\* an ICCBased image of 3 components over a JPEG of 4 has failed to load
C21_Witness ==
  /\ DctFallback
  /\ HeaderValid
  /\ Constructed.m_pColorSpace = "ICCBased3"
  /\ HeaderOf.components = 4
  /\ hist.startRet = "Fail"

\* an ICCBased image of 3 components over a JPEG of 1 has loaded
C21_LoadedWitness ==
  /\ DctFallback
  /\ HeaderValid
  /\ Constructed.m_pColorSpace = "ICCBased3"
  /\ HeaderOf.components = 1
  /\ hist.startRet = "Success"
  /\ dib.m_nComponents = 1

\* a DeviceGray image over a JPEG of 3 components has loaded
C21_DeviceWitness ==
  /\ DctFallback
  /\ HeaderValid
  /\ Constructed.m_pColorSpace = "DeviceGray"
  /\ HeaderOf.components = 3
  /\ hist.startRet = "Success"

(***************************************************************************)
(* C22: the bits per component after ValidateDictParam, and the loads the  *)
(* check of them fails.                                                    *)
(***************************************************************************)
DeclaredBpc == call.pStream[1].BitsPerComponent

\* the bits per component the filter leaves an image with
EffectiveBpc ==
  CASE FilterOf \in {"CCITTFaxDecode", "JBIG2Decode"} -> 1
    [] FilterOf = "DCTDecode" -> 8
    [] FilterOf = "JPXDecode" -> DeclaredBpc
    [] OTHER -> IF DeclaredBpc \in {1, 2, 4, 8, 16} THEN DeclaredBpc ELSE 0

\* StartLoadDIBBase has got to LoadColorInfo, and the filter is known
ColorInfoLoaded ==
  /\ op # "new"
  /\ call.pStream # <<>>
  /\ IsValidDimension(call.pStream[1].Width)
  /\ IsValidDimension(call.pStream[1].Height)
  /\ FilterOf # "Invalid"

\* C22: for an image with a colour space LoadColorInfo leaves m_bpc at 1,
\* with one component, for CCITTFaxDecode and JBIG2Decode, at 8 for
\* DCTDecode, at the declared value with the check disabled for JPXDecode,
\* and otherwise at the declared value if that is 1, 2, 4, 8 or 16 and at 0
\* if not; StartLoadDIBBase returns Fail when the check is enabled and
\* m_bpc or m_nComponents is 0, and when the declared value is outside
\* 0..16.
C22_EffectiveBpc ==
  ColorInfoLoaded =>
    /\ DeclaredBpc \notin 0..16 => hist.startRet = "Fail"
    /\ (ConstructionCompleted /\ Constructed.m_pColorSpace # null)
         => /\ Constructed.m_bpc = EffectiveBpc
            /\ Constructed.m_bDoBpcCheck = (FilterOf # "JPXDecode")
            /\ FilterOf \in {"CCITTFaxDecode", "JBIG2Decode"}
                 => Constructed.m_nComponents = 1
    /\ (/\ ConstructionCompleted
        /\ Constructed.m_bDoBpcCheck
        /\ Constructed.m_bpc = 0 \/ Constructed.m_nComponents = 0)
         => hist.startRet = "Fail"

\* a DCT image declared with 3 bits per component has loaded with 8
C22_Witness ==
  /\ ColorInfoLoaded
  /\ FilterOf = "DCTDecode"
  /\ DeclaredBpc = 3
  /\ Constructed.m_bpc = 8
  /\ hist.startRet = "Success"

\* an unfiltered image declared with 3 bits per component has failed
C22_ZeroWitness ==
  /\ ColorInfoLoaded
  /\ FilterOf = ""
  /\ DeclaredBpc = 3
  /\ Constructed.m_bpc = 0
  /\ hist.startRet = "Fail"

\* a JPX image declared with 3 bits per component has loaded
C22_JpxWitness ==
  /\ ColorInfoLoaded
  /\ FilterOf = "JPXDecode"
  /\ DeclaredBpc = 3
  /\ Constructed.m_bpc = 3
  /\ hist.startRet = "Success"

(***************************************************************************)
(* C23: which codec a ContinueLoadDIBBase call drives when the mask's      *)
(* StartLoadDIBBase returned Continue.                                     *)
(***************************************************************************)
\* the calls the object itself has made into the JBIG2 codec
OwnCalls(d) == d.nStartDecode + d.nContinueDecode

\* ContinueLoadDIBBase may be called on an image whose mask answered
\* Continue to StartLoadMask
MaskPending ==
  /\ ContinueEnabled
  /\ call.pStream # <<>>
  /\ hist.iLoadedMask = "Continue"

\* C23: on a JBIG2 image, a call made before the codec's kDone asks the
\* image's own codec and continues the mask only if the codec answers
\* kDone; m_Status becomes Continue only in such a call, and from then on
\* the calls ask the mask only.  On any other image every call goes
\* straight to the mask: it asks no codec of the image's own and continues
\* the mask if there still is one.
C23_MaskContinuedAfterDone ==
  MaskPending =>
    \A st \in CodecStatus, stMask \in CodecStatus, ub \in UBOutcome :
      IF FilterOf = "JBIG2Decode"
      THEN /\ (dib.m_Status # "Continue"
                /\ Answer(st, stMask, ub).ret # "Crash")
               => /\ OwnCalls(Answer(st, stMask, ub).self)
                       = OwnCalls(dib) + 1
                  /\ Answer(st, stMask, ub).maskRet # "none" => st = "kDone"
                  /\ Answer(st, stMask, ub).self.m_Status = "Continue"
                       <=> (st = "kDone"
                              /\ Answer(st, stMask, ub).maskRet = "Continue")
           /\ dib.m_Status = "Continue"
               => /\ OwnCalls(Answer(st, stMask, ub).self) = OwnCalls(dib)
                  /\ dib.m_pMask # <<>>
                       => Answer(st, stMask, ub).maskRet # "none"
      ELSE /\ dib.m_Status = "Continue"
           /\ OwnCalls(Answer(st, stMask, ub).self) = OwnCalls(dib)
           /\ dib.m_pMask # <<>> => Answer(st, stMask, ub).maskRet # "none"

\* a JBIG2 image's codec has answered kDone and its mask is being continued
C23_Witness ==
  /\ op = "ContinueLoadDIBBase"
  /\ call.pStream # <<>>
  /\ hist.iLoadedMask = "Continue"
  /\ FilterOf = "JBIG2Decode"
  /\ dib.m_Status = "Continue"
  /\ OwnCalls(dib) >= 1
  /\ hist.maskRet = "Continue"

\* an unfiltered image's mask has been continued
C23_PlainWitness ==
  /\ op = "ContinueLoadDIBBase"
  /\ call.pStream # <<>>
  /\ hist.iLoadedMask = "Continue"
  /\ FilterOf = ""
  /\ hist.maskRet # "none"
  /\ OwnCalls(dib) = 0

(***************************************************************************)
(* C24: the load ends.                                                     *)
(***************************************************************************)
\* every codec the call asks gives a final answer
FinalAnswer(st) == st \in {"kError", "kDone"}

\* C24: when StartLoadDIBBase has returned Continue and the codecs answer
\* kDecodeToBeContinued only finitely often, calling ContinueLoadDIBBase
\* again and again leads to Success or Fail; and a call in which the codecs
\* give final answers does not return Continue.
C24_LoadTerminates ==
  /\ (hist.startRet = "Continue") ~> (ret \in {"Success", "Fail"})
  /\ [](ContinueEnabled =>
          \A st \in CodecStatus, stMask \in CodecStatus, ub \in UBOutcome :
            (FinalAnswer(st) /\ FinalAnswer(stMask))
              => Answer(st, stMask, ub).ret # "Continue")

\* a load that StartLoadDIBBase left at Continue has ended in Success after
\* the image's and the mask's codec were asked
C24_Witness ==
  /\ hist.startRet = "Continue"
  /\ op = "ContinueLoadDIBBase"
  /\ ret = "Success"
  /\ OwnCalls(dib) >= 1
  /\ CodecCalls(dib) > OwnCalls(dib)

\* C25: mask nesting depth is at most 1.  The mask sub-decoder is started
\* with m_bHasMask and m_bLoadMask false and never holds a mask sub-decoder
\* of its own, whatever its dictionary's SMask / Mask refers to (another
\* stream, or the image again), and so every StartLoadDIBBase returns one
\* of its three load states.
C25_MaskDepthAtMostOne ==
  /\ op = "StartLoadDIBBase" => ret \in {"Success", "Fail", "Continue"}
  /\ dib.m_pMask # <<>>
       => /\ ~dib.m_pMask[1].m_bHasMask
          /\ ~dib.m_pMask[1].m_bLoadMask
          /\ dib.m_pMask[1].m_pMask = <<>>

\* a mask is loaded whose own dictionary names a further stream
C25_Witness ==
  /\ op # "new"
  /\ dib.m_pMask # <<>>
  /\ dib.m_pMask[1].m_pDict[1].sub # <<>>
  /\ dib.m_pMask[1].m_pDict[1].sub[1] # call.pStream[1]

\* a mask is loaded whose own SMask is the image it masks
C25_CycleWitness ==
  /\ op # "new"
  /\ dib.m_pMask # <<>>
  /\ dib.m_pMask[1].m_pDict[1].SMask
  /\ dib.m_pMask[1].m_pDict[1].sub # <<>>
  /\ dib.m_pMask[1].m_pDict[1].Filter = call.pStream[1].Filter
  /\ dib.m_pMask[1].m_pDict[1].Width = call.pStream[1].Width
  /\ dib.m_pMask[1].m_pDict[1].sub[1].SMask
  /\ ret \in {"Success", "Continue"}

\* the image dictionary of the call
ImageDict == call.pStream[1]

\* no colour key: m_bColorKey is off, the format is not kArgb and there is
\* no m_pMaskedLine
NotKeyed ==
  /\ ~dib.m_bColorKey
  /\ dib.m_Format # "kArgb"
  /\ dib.m_pMaskedLine = <<>>

\* the colour-key bounds of every component are the initial ones
InitialKeyBounds ==
  \A i \in 1..Len(dib.m_CompData) :
     /\ dib.m_CompData[i].m_ColorKeyMin = ZeroCompData.m_ColorKeyMin
     /\ dib.m_CompData[i].m_ColorKeyMax = ZeroCompData.m_ColorKeyMax

\* LoadColorInfo gets as far as GetDecodeAndMaskArray: the dimensions and
\* BitsPerComponent are acceptable, the image is not an image mask and its
\* ColorSpace entry resolves
ReachesMaskArray ==
  /\ IsValidDimension(ImageDict.Width)
  /\ IsValidDimension(ImageDict.Height)
  /\ ImageDict.Filter # "Invalid"
  /\ IsMaybeValidBitsPerComponent(ImageDict.BitsPerComponent)
  /\ ~ImageDict.ImageMask
  /\ ImageDict.ColorSpace \in ColorSpaces

\* C26 as stated: with an SMask key there is never a colour key, whatever
\* Mask is; m_bColorKey is on exactly when SMask is absent and Mask is an
\* array; and under an array shorter than twice the components the key
\* bounds keep their initial values.
C26_ColorKeyExactly ==
  (op # "new" /\ call.pStream # <<>>)
    => /\ ImageDict.SMask => NotKeyed
       /\ dib.m_bColorKey <=> (~ImageDict.SMask /\ ImageDict.Mask = "array")
       /\ (dib.m_bColorKey
             /\ Len(ImageDict.MaskArray) < 2 * Len(dib.m_CompData))
            => InitialKeyBounds

\* C26, amended: the same, with m_bColorKey on exactly when, besides, the
\* load gets as far as reading the Mask entry.
C26_ColorKeyExactlyWhenRead ==
  (op # "new" /\ call.pStream # <<>>)
    => /\ ImageDict.SMask => NotKeyed
       /\ dib.m_bColorKey
            <=> (ReachesMaskArray /\ ~ImageDict.SMask
                   /\ ImageDict.Mask = "array")
       /\ (dib.m_bColorKey
             /\ Len(ImageDict.MaskArray) < 2 * Len(dib.m_CompData))
            => InitialKeyBounds

\* an image with an SMask and a Mask array has loaded
C26_Witness ==
  /\ op # "new"
  /\ call.pStream # <<>>
  /\ ImageDict.SMask
  /\ ImageDict.Mask = "array"
  /\ ReachesMaskArray
  /\ ret \in {"Success", "Continue"}
  /\ dib.m_pLineBuf # <<>>

\* a colour key is on under a Mask array shorter than twice the components
C26_ShortWitness ==
  /\ op # "new"
  /\ call.pStream # <<>>
  /\ dib.m_bColorKey
  /\ dib.m_pMaskedLine # <<>>
  /\ dib.m_Format = "kArgb"
  /\ ImageDict.MaskArray # <<>>
  /\ Len(ImageDict.MaskArray) < 2 * Len(dib.m_CompData)

\* a colour key is on with bounds read from the Mask array
C26_LongWitness ==
  /\ op # "new"
  /\ call.pStream # <<>>
  /\ dib.m_bColorKey
  /\ Len(ImageDict.MaskArray) >= 2 * Len(dib.m_CompData)
  /\ ~InitialKeyBounds

\* an image mask with a Mask array and no SMask has loaded
C26_ImageMaskWitness ==
  /\ op # "new"
  /\ call.pStream # <<>>
  /\ ImageDict.ImageMask
  /\ ~ImageDict.SMask
  /\ ImageDict.Mask = "array"
  /\ ret = "Success"

\* the links of every item agree with its neighbours' links
LinksConsistent ==
  \A x \in 1..MaxItems :
     /\ items[x].m_pNext # nullptr => items[items[x].m_pNext].m_pPrev = x
     /\ items[x].m_pPrev # nullptr => items[items[x].m_pPrev].m_pNext = x

\* right after self->InsertAfter(pItem), pItem follows self
InsertedAfter ==
  inserted # <<>>
    => /\ items[inserted[1].self].m_pNext = inserted[1].pItem
       /\ items[inserted[1].pItem].m_pPrev = inserted[1].self

\* the items before and after pItem before the call are linked to each other
FormerNeighboursLinked ==
  inserted # <<>>
    => /\ inserted[1].m_pPrev # nullptr
            => items[inserted[1].m_pPrev].m_pNext = inserted[1].m_pNext
       /\ inserted[1].m_pNext # nullptr
            => items[inserted[1].m_pNext].m_pPrev = inserted[1].m_pPrev

\* pItem already followed self before the call
AlreadyAfter == inserted # <<>> /\ inserted[1].m_pPrev = inserted[1].self

\* after such a call the links are what they were: self, pItem, and the
\* item that followed pItem
LinksKept ==
  /\ items[inserted[1].pItem].m_pNext = inserted[1].m_pNext
  /\ inserted[1].m_pNext # nullptr
       => items[inserted[1].m_pNext].m_pPrev = inserted[1].pItem

RECURSIVE Distance(_, _, _)
\* how many m_pNext steps lead from item x to item y (x's chain holds y)
Distance(x, y, d) ==
  IF x = y THEN d
  ELSE IF items[x].m_pNext = nullptr \/ d >= MaxItems THEN NeverReturns
  ELSE Distance(items[x].m_pNext, y, d + 1)

\* GetCount is the same from every item of a chain, and GetIndex is the
\* item's distance from GetFirst
CountAndIndex ==
  \A x \in 1..MaxItems :
     /\ GetFirst(items, x) # nullptr
     /\ GetIndex(items, x) = Distance(GetFirst(items, x), x, 0)
     /\ GetIndex(items, x) # NeverReturns
     /\ \A y \in 1..MaxItems :
          GetFirst(items, x) = GetFirst(items, y)
            => /\ GetCount(items, x) = GetCount(items, y)
               /\ GetCount(items, x) # NeverReturns

\* C27 as stated: after any sequence of a.InsertAfter(b) calls with a # b
\* the m_pPrev / m_pNext links are mutually consistent, b follows a right
\* after the call, b's former neighbours are linked to each other, GetCount
\* is the same from every item of a chain and GetIndex is the distance from
\* GetFirst.
C27_InsertAfterKeepsChains ==
  /\ LinksConsistent
  /\ InsertedAfter
  /\ FormerNeighboursLinked
  /\ CountAndIndex

\* C27, amended: the same, with b's former neighbours linked to each other
\* unless b already followed a, a call that leaves every link as it was.
C27_InsertAfterKeepsChainsOrLinks ==
  /\ LinksConsistent
  /\ InsertedAfter
  /\ IF AlreadyAfter THEN LinksKept ELSE FormerNeighboursLinked
  /\ CountAndIndex

\* an item was taken from between two others and put after a third item
\* of a chain
C27_Witness ==
  /\ inserted # <<>>
  /\ inserted[1].m_pPrev # nullptr
  /\ inserted[1].m_pNext # nullptr
  /\ ~AlreadyAfter
  /\ GetCount(items, inserted[1].pItem) >= 3
  /\ GetIndex(items, inserted[1].pItem) >= 1

\* an item between two others was inserted after the one before it again
C27_AgainWitness ==
  /\ AlreadyAfter
  /\ inserted[1].m_pNext # nullptr

\* an item was inserted after the one that followed it
C27_SwapWitness ==
  /\ inserted # <<>>
  /\ inserted[1].m_pNext = inserted[1].self
  /\ inserted[1].m_pPrev # nullptr
====
